---- MODULE Spec2Model ----
(***************************************************************************)
(* Model of the d_brain message router: the rule-based intent classifier   *)
(* and field extractors (services/intent.py), the text, voice and /task    *)
(* handlers (bot/handlers), the progress supervisor (bot/utils.py) and the *)
(* delegated-agent wrapper (services/processor.py).                        *)
(*                                                                         *)
(* Text is modelled as a sequence of whitespace-separated words.  TLA+     *)
(* strings are ASCII, so every Russian word is written in transliteration  *)
(* ("dobav" = "добавь", "zadachu" = "задачу", ...); a capitalised word     *)
(* ("Dobav") is the same word with an upper-case first letter.  A regular  *)
(* expression of the source is modelled by what it matches on such a text: *)
(* \s+ is the single space between two words, \b a word edge, and a        *)
(* bounded gap .{0,n} is measured in characters of the Russian spelling.   *)
(***************************************************************************)
EXTENDS Integers, Sequences, FiniteSets, TLC

\* ------------------------------------------------------------------ bounds

\* longest text (in words) enumerated for the pure functions
MaxLen == 3

\* ------------------------------------------------------------- vocabulary

\* Number of characters of each word in its Russian spelling.
WordLen ==
  [ dobav |-> 6, Dobav |-> 6, postav |-> 7, zadachu |-> 6, zadacha |-> 6,
    zadachi |-> 6, napomni |-> 7, mne |-> 3, o |-> 1, pokazhi |-> 6,
    Pokazhi |-> 6, kakie |-> 5, u |-> 1, menya |-> 4, dela |-> 4, na |-> 2,
    segodnya |-> 7, zavtra |-> 6, gotova |-> 6, perenesi |-> 8,
    moloko |-> 6, v |-> 1, proekt |-> 6, video |-> 5, Video |-> 5,
    pyatnicu |-> 7, pyatnic |-> 6, prosrochennye |-> 12, sejchas |-> 6,
    den |-> 4, processe |-> 8, aktivn |-> 6, aktivnye |-> 8 ]
  @@ ("15.03" :> 5) @@ ("31.11" :> 5) @@ ("7/11/26" :> 7)

\* str.lower() on one word
LowerWord(w) ==
  CASE w = "Dobav" -> "dobav"
    [] w = "Pokazhi" -> "pokazhi"
    [] w = "Video" -> "video"
    [] w = "Zavtra" -> "zavtra"
    [] w = "Pyatnicu" -> "pyatnicu"
    [] OTHER -> w

\* str.lower() on a text
Lower(t) == [i \in 1..Len(t) |-> LowerWord(t[i])]

\* The words the classifier's inputs are built from.
Vocabulary ==
  { "dobav", "Dobav", "postav", "zadachu", "zadacha", "zadachi", "napomni",
    "o", "pokazhi", "na", "segodnya", "gotova", "perenesi", "moloko" }

RECURSIVE SeqsUpTo(_, _)
SeqsUpTo(S, n) ==
  IF n = 0 THEN { <<>> }
  ELSE LET shorter == SeqsUpTo(S, n - 1)
       IN  shorter \cup { Append(s, w) : s \in { x \in shorter : Len(x) = n - 1 }, w \in S }

Texts == SeqsUpTo(Vocabulary, MaxLen) \ { <<>> }

\* ------------------------------------------------------- regex helpers

RECURSIVE SumLen(_, _, _)
\* characters of the words t[a..b], each followed by one space
SumLen(t, a, b) == IF a > b THEN 0 ELSE WordLen[t[a]] + 1 + SumLen(t, a + 1, b)

\* characters between the space after word i and the start of word j (i < j)
Gap(t, i, j) == SumLen(t, i + 1, j - 1)

\* characters strictly between the space after word i and the space before
\* word j (i + 1 < j): the words i+1..j-1 and the spaces between them
Inner(t, i, j) == SumLen(t, i + 1, j - 1) - 1

\* word classes of the patterns
CreateVerbs == { "dobav", "sozdaj", "zapishi", "postav", "vnesi" }
CreateNouns == { "zadachu", "zadanie", "napominanie" }
\* words that start with "задач" / "задани"
StemZadach == { "zadach", "zadachu", "zadacha", "zadachi" }
StemZadani == { "zadani", "zadanie", "zadaniya" }
ShowVerbs == { "pokazhi", "pokazhte", "pokazhite", "otobrazi", "vyvedi", "spisok" }
StateStems == { "prosrochenn", "nezakryt", "aktivn" }
StandVerbs == { "stoit", "est", "visit", "ostalos", "zaplanirovano" }
FindVerbs == { "najdi", "najti", "poisk" }
MarkVerbs == { "otmet", "pometi", "postav" }
\* words that contain "выполнен", "готов", "сделан" or "закрыт"
DoneStems ==
  { "vypolnen", "vypolnena", "gotov", "gotova", "sdelan", "sdelana",
    "zakryt", "zakryta", "nezakryt" }
\* where in the word the stem starts
StemOffset(w) == IF w = "nezakryt" THEN 2 ELSE 0
DidVerbs ==
  { "vypolnil", "vypolnila", "vypolnili", "sdelal", "sdelala", "sdelali",
    "zakryl", "zakryla", "zakryli" }
DoneWords == { "vypolnena", "gotova", "sdelana", "zakryta" }
ShiftVerbs == { "izmeni", "obnovi", "sdvin" }
MoveVerbs == { "perenesi", "sdvin", "izmeni", "pomenyaj" }

Idx(t) == 1..Len(t)
At(t, i, S) == i \in Idx(t) /\ t[i] \in S

\* _CREATE_PATTERNS
Create1(t) == \E i \in Idx(t) : At(t, i, CreateVerbs) /\ At(t, i + 1, CreateNouns)
Create2(t) == \E i \in Idx(t) : t[i] = "zadacha" /\ i + 1 \in Idx(t)
Create3(t) ==
  \E i \in Idx(t) :
    /\ t[i] = "napomni"
    /\ \/ At(t, i + 1, {"o"})
       \/ At(t, i + 1, {"mne"}) /\ At(t, i + 2, {"o"})

\* _QUERY_PATTERNS
Query1(t) ==
  \E i \in Idx(t), j \in Idx(t) :
    i < j /\ t[i] \in ShowVerbs /\ t[j] \in StemZadach \cup StemZadani /\ Gap(t, i, j) <= 30
Query2(t) ==
  \E i \in Idx(t) :
    /\ t[i] = "kakie"
    /\ \/ At(t, i + 1, {"zadach", "zadani", "dela"})
       \/ At(t, i + 1, {"u"}) /\ At(t, i + 2, {"menya"}) /\ At(t, i + 3, {"zadach", "zadani", "dela"})
Query3(t) ==
  \E i \in Idx(t), j \in Idx(t) :
    /\ \/ t[i] \in StateStems /\ i < j /\ Gap(t, i, j) + 1 <= 20
       \/ t[i] = "ne" /\ At(t, i + 1, {"sdelan"}) /\ i + 1 < j /\ Gap(t, i + 1, j) + 1 <= 20
    /\ t[j] \in StemZadach
Query4(t) ==
  \E i \in Idx(t), j \in Idx(t) :
    i < j /\ t[i] \in StemZadach /\ t[j] \in StateStems
      /\ (WordLen[t[i]] - 5) + 1 + Gap(t, i, j) <= 20
Query5(t) ==
  \E i \in Idx(t) :
    /\ t[i] = "chto"
    /\ \/ At(t, i + 1, StandVerbs)
       \/ At(t, i + 1, {"u"}) /\ At(t, i + 2, {"menya"}) /\ At(t, i + 3, StandVerbs)
Query6(t) ==
  \E i \in Idx(t) :
    t[i] \in {"plan", "plany"} /\ At(t, i + 1, {"na"}) /\ At(t, i + 2, {"segodnya", "zavtra", "nedelyu"})
Query7(t) == \E i \in Idx(t) : t[i] \in FindVerbs /\ At(t, i + 1, StemZadach)
Query8(t) ==
  \E i \in Idx(t) :
    /\ t[i] \in {"zadachi", "zadachu", "zadach"}
    /\ LET When(m) == At(t, m, {"segodnya", "zavtra"}) \/ (At(t, m, {"etu"}) /\ At(t, m + 1, {"nedelyu"}))
       IN  When(i + 1) \/ (At(t, i + 1, {"na"}) /\ When(i + 2))
Query9(t) ==
  \E i \in Idx(t) : t[i] = "chto" /\ At(t, i + 1, {"nado"}) /\ At(t, i + 2, {"sdelat", "uspet"})

\* _ACTION_PATTERNS
Action1(t) ==
  \E i \in Idx(t), j \in Idx(t) :
    i < j /\ t[i] \in MarkVerbs /\ t[j] \in DoneStems
      /\ Gap(t, i, j) + StemOffset(t[j]) <= 40
Action2(t) == \E i \in Idx(t) : t[i] \in DidVerbs /\ At(t, i + 1, {"zadachu", "eto", "eyo"})
Action3(t) ==
  \E i \in Idx(t), j \in Idx(t) :
    i + 1 < j /\ t[i] = "zadacha" /\ t[j] \in DoneWords /\ Inner(t, i, j) <= 40
Action4(t) ==
  \E i \in Idx(t), j \in Idx(t) :
    i + 1 < j /\ t[i] = "perenesi" /\ t[j] = "na" /\ j + 1 \in Idx(t) /\ Inner(t, i, j) <= 60
Action5(t) == \E i \in Idx(t) : t[i] \in ShiftVerbs /\ At(t, i + 1, {"dedlajn", "srok"})
Action6(t) ==
  \E i \in Idx(t), j \in Idx(t) :
    i < j /\ t[i] = "dedlajn" /\ t[j] \in MoveVerbs /\ Gap(t, i, j) <= 30
Action7(t) == \E i \in Idx(t) : t[i] = "pomenyaj" /\ At(t, i + 1, {"dedlajn", "srok"})

\* any(re.search(p, t) for p in group)
MatchesCreate(t) == Create1(t) \/ Create2(t) \/ Create3(t)
MatchesQuery(t) ==
  \/ Query1(t) \/ Query2(t) \/ Query3(t) \/ Query4(t) \/ Query5(t)
  \/ Query6(t) \/ Query7(t) \/ Query8(t) \/ Query9(t)
MatchesAction(t) ==
  \/ Action1(t) \/ Action2(t) \/ Action3(t) \/ Action4(t)
  \/ Action5(t) \/ Action6(t) \/ Action7(t)

\* Intent enum values
CREATE_TASK == "create_task"
QUERY_TASKS == "query_tasks"
NOTION_ACTION == "notion_action"
SAVE == "save"
Intents == { CREATE_TASK, QUERY_TASKS, NOTION_ACTION, SAVE }

\* classify with the query group tried before the creation group
classify_QueryFirst(text) ==
  LET t == Lower(text)
  IN  IF MatchesQuery(t) THEN QUERY_TASKS
      ELSE IF MatchesCreate(t) THEN CREATE_TASK
      ELSE IF MatchesAction(t) THEN NOTION_ACTION
      ELSE SAVE

classify(text) ==
  LET t == Lower(text)
  IN  IF MatchesCreate(t) THEN CREATE_TASK
      ELSE IF MatchesQuery(t) THEN QUERY_TASKS
      ELSE IF MatchesAction(t) THEN NOTION_ACTION
      ELSE SAVE

\* QueryType enum values
OVERDUE == "overdue"
TODAY == "today"
TOMORROW == "tomorrow"
IN_PROGRESS == "in_progress"
ALL == "all"

\* classify_query with the today group tried before the tomorrow group
classify_query_TodayFirst(text) ==
  LET t == Lower(text)
  IN  IF \E i \in Idx(t) : t[i] \in {"prosrochen", "prosrochennye", "prosrochenn"} THEN OVERDUE
      ELSE IF \E i \in Idx(t) :
                t[i] \in {"segodnya", "sejchas"} \/ (t[i] = "na" /\ At(t, i + 1, {"den"}))
        THEN TODAY
      ELSE IF \E i \in Idx(t) : t[i] = "zavtra" THEN TOMORROW
      ELSE IF \E i \in Idx(t) :
                \/ t[i] \in {"aktivn", "nezakryt"}
                \/ t[i] = "v" /\ At(t, i + 1, {"processe"})
                \/ t[i] = "in" /\ At(t, i + 1, {"progress"})
                \/ t[i] = "ne" /\ At(t, i + 1, {"sdelan"})
        THEN IN_PROGRESS
      ELSE ALL

\* intent.classify_query
classify_query(text) ==
  LET t == Lower(text)
  IN  IF \E i \in Idx(t) : t[i] \in {"prosrochen", "prosrochennye", "prosrochenn"} THEN OVERDUE
      ELSE IF \E i \in Idx(t) : t[i] = "zavtra" THEN TOMORROW
      ELSE IF \E i \in Idx(t) :
                t[i] \in {"segodnya", "sejchas"} \/ (t[i] = "na" /\ At(t, i + 1, {"den"}))
        THEN TODAY
      ELSE IF \E i \in Idx(t) :
                \/ t[i] \in {"aktivn", "nezakryt"}
                \/ t[i] = "v" /\ At(t, i + 1, {"processe"})
                \/ t[i] = "in" /\ At(t, i + 1, {"progress"})
                \/ t[i] = "ne" /\ At(t, i + 1, {"sdelan"})
        THEN IN_PROGRESS
      ELSE ALL

\* ------------------------------------------------- task name extraction

\* t[a:] in words
From(t, a) == SubSeq(t, a, Len(t))

\* _TRIGGER_PREFIX.sub("", t): a leading verb + noun trigger, any case
StripTrigger(t) ==
  IF Len(t) >= 2 /\ LowerWord(t[1]) \in CreateVerbs /\ LowerWord(t[2]) \in CreateNouns
  THEN From(t, 3) ELSE t

\* _TASK_PREFIX.sub("", t): a leading "задачу" / "задача", any case
StripTaskPrefix(t) ==
  IF Len(t) >= 1 /\ LowerWord(t[1]) \in {"zadachu", "zadacha"} THEN From(t, 2) ELSE t

extract_task_name(text) == StripTaskPrefix(StripTrigger(text))

\* ---------------------------------------------------- project extraction

\* A text is matched piece by piece: a piece is a word (letters only) or one
\* character that is not a letter.
NonLetters == { " ", ":", "-", ",", "2" }

RECURSIVE Pieces(_)
\* the pieces of words joined by single spaces
Pieces(words) ==
  IF Len(words) <= 1 THEN words
  ELSE << words[1], " " >> \o Pieces(SubSeq(words, 2, Len(words)))

\* _KNOWN_PROJECTS in the order of the dict: every alias with its canonical
\* project, its pieces and its length in characters
KnownAliases ==
  << [canonical |-> "Kontent-zavod", pieces |-> <<"kontent", "-", "zavod">>, len |-> 13],
     [canonical |-> "Kontent-zavod", pieces |-> <<"kontent", " ", "zavod">>, len |-> 13],
     [canonical |-> "Video", pieces |-> <<"video">>, len |-> 5],
     [canonical |-> "Marketingovye materialy", pieces |-> <<"marketingovye", " ", "materialy">>, len |-> 23],
     [canonical |-> "Strategiya", pieces |-> <<"strategiya">>, len |-> 9],
     [canonical |-> "Strategiya", pieces |-> <<"strategiyu">>, len |-> 9],
     [canonical |-> "Lidogeneraciya", pieces |-> <<"lidogeneraciya">>, len |-> 13],
     [canonical |-> "Lidogeneraciya", pieces |-> <<"lidogeneraciyu">>, len |-> 13],
     [canonical |-> "Meropriyatiya", pieces |-> <<"meropriyatiya">>, len |-> 11],
     [canonical |-> "Meropriyatiya", pieces |-> <<"meropriyatie">>, len |-> 11],
     [canonical |-> "Organizacii i associacii",
      pieces |-> <<"organizacii", " ", "i", " ", "associacii">>, len |-> 24],
     [canonical |-> "Organizacii i associacii", pieces |-> <<"organizacii">>, len |-> 11],
     [canonical |-> "Organizacii i associacii", pieces |-> <<"associacii">>, len |-> 10] >>

None == "None"

\* low.startswith(alias)
IsPrefix(p, t) == Len(p) <= Len(t) /\ SubSeq(t, 1, Len(p)) = p

\* best = (None, 0)
NoMatch == [proj |-> None, n |-> 0, len |-> 0]

\* end >= len(low) or not low[end].isalpha(), for an alias of n pieces
AtBoundary(low, n) == n >= Len(low) \/ low[n + 1] \in NonLetters

RECURSIVE MatchLoopUnchecked(_, _, _)
\* the loop taking every longer alias that starts the text
MatchLoopUnchecked(low, k, best) ==
  IF k > Len(KnownAliases) THEN best
  ELSE LET a == KnownAliases[k]
       IN  MatchLoopUnchecked(low, k + 1,
             IF IsPrefix(a.pieces, low) /\ a.len > best.len
             THEN [proj |-> a.canonical, n |-> Len(a.pieces), len |-> a.len]
             ELSE best)

\* _match_known_project that tests the word boundary on the longest alias only
_match_known_project_BoundaryLast(text) ==
  LET best == MatchLoopUnchecked(Lower(text), 1, NoMatch)
  IN  IF AtBoundary(Lower(text), best.n) THEN best ELSE NoMatch

RECURSIVE MatchLoop(_, _, _)
\* the two for loops from alias k on, with the best match so far
MatchLoop(low, k, best) ==
  IF k > Len(KnownAliases) THEN best
  ELSE LET a == KnownAliases[k]
       IN  MatchLoop(low, k + 1,
             IF IsPrefix(a.pieces, low) /\ a.len > best.len /\ AtBoundary(low, Len(a.pieces))
             THEN [proj |-> a.canonical, n |-> Len(a.pieces), len |-> a.len]
             ELSE best)

\* intent._match_known_project on the pieces of a text: the canonical project,
\* the pieces consumed and the length returned; (None, 0) when nothing matches
_match_known_project(text) == MatchLoop(Lower(text), 1, NoMatch)

\* proj, length = _match_known_project(after), for words joined by spaces:
\* the canonical project and the number of words consumed
MatchKnown(words) ==
  LET m == _match_known_project(Pieces(words))
  IN  [proj |-> m.proj, n |-> (m.n + 1) \div 2]

\* extract_project that keeps a match whose remainder is empty
extract_project_KeepEmpty(text) ==
  LET t == text
      explicit == Len(t) >= 3 /\ LowerWord(t[1]) = "v"
                    /\ LowerWord(t[2]) \in {"proekt", "proekte", "proektu"}
      implicit == Len(t) >= 2 /\ LowerWord(t[1]) = "v"
      Known(after) ==
        LET m == MatchKnown(after)
        IN  [project |-> m.proj, text |-> From(after, m.n + 1)]
  IN  IF explicit
      THEN LET after == From(t, 3)
           IN  IF MatchKnown(after).proj # None THEN Known(after)
               ELSE [project |-> after[1], text |-> From(after, 2)]
      ELSE IF implicit /\ MatchKnown(From(t, 2)).proj # None
      THEN Known(From(t, 2))
      ELSE [project |-> None, text |-> t]

\* extract_project that takes an unknown word after a bare "в" as a project
extract_project_ImplicitAdHoc(text) ==
  LET t == text
      anyIn == Len(t) >= 3 /\ LowerWord(t[1]) = "v"
      skip == IF LowerWord(t[2]) \in {"proekt", "proekte", "proektu"} /\ Len(t) >= 4
              THEN 3 ELSE 2
      after == From(t, skip)
      m == MatchKnown(after)
  IN  IF ~anyIn THEN [project |-> None, text |-> t]
      ELSE IF m.proj # None
      THEN (IF From(after, m.n + 1) # <<>>
            THEN [project |-> m.proj, text |-> From(after, m.n + 1)]
            ELSE [project |-> None, text |-> t])
      ELSE [project |-> after[1], text |-> From(after, 2)]

extract_project(text) ==
  LET t == text
      explicit == Len(t) >= 3 /\ LowerWord(t[1]) = "v"
                    /\ LowerWord(t[2]) \in {"proekt", "proekte", "proektu"}
      implicit == Len(t) >= 2 /\ LowerWord(t[1]) = "v"
      Known(after) ==
        LET m == MatchKnown(after)
            rest == From(after, m.n + 1)
        IN  IF rest # <<>> THEN [project |-> m.proj, text |-> rest]
            ELSE [project |-> None, text |-> t]
  IN  IF explicit
      THEN LET after == From(t, 3)
           IN  IF MatchKnown(after).proj # None THEN Known(after)
               ELSE IF Len(after) >= 2 THEN [project |-> after[1], text |-> From(after, 2)]
               ELSE [project |-> None, text |-> t]
      ELSE IF implicit /\ MatchKnown(From(t, 2)).proj # None
      THEN Known(From(t, 2))
      ELSE [project |-> None, text |-> t]

\* --------------------------------------------------- due date extraction

\* datetime.date: validity, successor and weekday of a calendar date
IsLeap(y) == (y % 4 = 0 /\ y % 100 # 0) \/ y % 400 = 0
DaysInMonth(y, m) ==
  IF m = 2 THEN (IF IsLeap(y) THEN 29 ELSE 28)
  ELSE IF m \in {4, 6, 9, 11} THEN 30 ELSE 31
\* date(year, month, day) raises ValueError unless this holds
ValidDate(y, m, d) == y \in 1..9999 /\ m \in 1..12 /\ d \in 1..DaysInMonth(y, m)
NextDay(dt) ==
  IF dt.d < DaysInMonth(dt.y, dt.m) THEN [dt EXCEPT !.d = dt.d + 1]
  ELSE IF dt.m < 12 THEN [y |-> dt.y, m |-> dt.m + 1, d |-> 1]
  ELSE [y |-> dt.y + 1, m |-> 1, d |-> 1]
RECURSIVE AddDays(_, _)
\* dt + timedelta(days=n)
AddDays(dt, n) == IF n = 0 THEN dt ELSE AddDays(NextDay(dt), n - 1)
\* days since 1970-01-01
DayNumber(dt) ==
  LET y == IF dt.m <= 2 THEN dt.y - 1 ELSE dt.y
      era == y \div 400
      yoe == y - era * 400
      mp == IF dt.m > 2 THEN dt.m - 3 ELSE dt.m + 9
      doy == (153 * mp + 2) \div 5 + dt.d - 1
      doe == yoe * 365 + yoe \div 4 - yoe \div 100 + doy
  IN  era * 146097 + doe - 719468
\* date.weekday(): Monday is 0
Weekday(dt) == (DayNumber(dt) + 3) % 7

\* words matched by _WEEKDAY_RE
WeekdayWords ==
  { "ponedelnik", "vtornik", "sred", "sredu", "chetverg", "pyatnic", "pyatnicu",
    "subbot", "subbotu", "voskresene" }
_WEEKDAY_MAP ==
  [ ponedelnik |-> 0, vtornik |-> 1, sreda |-> 1, sredu |-> 2, chetverg |-> 3,
    pyatnica |-> 4, pyatnicu |-> 4, subbota |-> 5, subbotu |-> 5, voskresene |-> 6 ]

\* words matched by _DATE_RE, with the groups it captures (y = -1: no year)
DateWords ==
  ("15.03" :> [d |-> 15, m |-> 3, y |-> -1])
  @@ ("31.11" :> [d |-> 31, m |-> 11, y |-> -1])
  @@ ("7/11/26" :> [d |-> 7, m |-> 11, y |-> 26])
  @@ ("5.13" :> [d |-> 5, m |-> 13, y |-> -1])
  @@ ("29.02" :> [d |-> 29, m |-> 2, y |-> -1])
  @@ ("29.02.28" :> [d |-> 29, m |-> 2, y |-> 28])
  @@ ("0.5" :> [d |-> 0, m |-> 5, y |-> -1])
  @@ ("28.12" :> [d |-> 28, m |-> 12, y |-> -1])
  @@ ("28/12/26" :> [d |-> 28, m |-> 12, y |-> 26])
  @@ ("28.12.2026" :> [d |-> 28, m |-> 12, y |-> 2026])
  @@ ("29.12" :> [d |-> 29, m |-> 12, y |-> -1])
  @@ ("29/12/26" :> [d |-> 29, m |-> 12, y |-> 26])
  @@ ("29.12.2026" :> [d |-> 29, m |-> 12, y |-> 2026])
  @@ ("30.12" :> [d |-> 30, m |-> 12, y |-> -1])
  @@ ("30/12/26" :> [d |-> 30, m |-> 12, y |-> 26])
  @@ ("30.12.2026" :> [d |-> 30, m |-> 12, y |-> 2026])
  @@ ("31.12" :> [d |-> 31, m |-> 12, y |-> -1])
  @@ ("31/12/26" :> [d |-> 31, m |-> 12, y |-> 26])
  @@ ("31.12.2026" :> [d |-> 31, m |-> 12, y |-> 2026])
  @@ ("1.01" :> [d |-> 1, m |-> 1, y |-> -1])
  @@ ("1/1/27" :> [d |-> 1, m |-> 1, y |-> 27])
  @@ ("1.01.2027" :> [d |-> 1, m |-> 1, y |-> 2027])
  @@ ("2.01" :> [d |-> 2, m |-> 1, y |-> -1])
  @@ ("2/1/27" :> [d |-> 2, m |-> 1, y |-> 27])
  @@ ("2.01.2027" :> [d |-> 2, m |-> 1, y |-> 2027])
  @@ ("3.01" :> [d |-> 3, m |-> 1, y |-> -1])
  @@ ("3/1/27" :> [d |-> 3, m |-> 1, y |-> 27])
  @@ ("3.01.2027" :> [d |-> 3, m |-> 1, y |-> 2027])
  @@ ("4.01" :> [d |-> 4, m |-> 1, y |-> -1])
  @@ ("4/1/27" :> [d |-> 4, m |-> 1, y |-> 27])
  @@ ("4.01.2027" :> [d |-> 4, m |-> 1, y |-> 2027])

\* no due date found (Python's None)
NoDate == [y |-> 0, m |-> 0, d |-> 0]

\* position of the first word of t in S, 0 when there is none (re.search)
FirstIn(t, S) ==
  IF \E i \in Idx(t) : t[i] \in S
  THEN CHOOSE i \in Idx(t) : t[i] \in S /\ \A k \in 1..(i - 1) : t[k] \notin S
  ELSE 0

\* the numeric-date rule without the expansion of a two-digit year
NumericDate_NoExpansion(text, today) ==
  LET i == FirstIn(text, DOMAIN DateWords)
  IN  IF i = 0 THEN NoDate
      ELSE LET g == DateWords[text[i]]
               year == IF g.y = -1 THEN today.y ELSE g.y
           IN  IF ValidDate(year, g.m, g.d) THEN [y |-> year, m |-> g.m, d |-> g.d]
               ELSE NoDate

\* the numeric-date rule shared by extract_due_date and _extract_due_date
NumericDate(text, today) ==
  LET i == FirstIn(text, DOMAIN DateWords)
  IN  IF i = 0 THEN NoDate
      ELSE LET g == DateWords[text[i]]
               year0 == IF g.y = -1 THEN today.y ELSE g.y
               year == IF year0 < 100 THEN year0 + 2000 ELSE year0
           IN  IF ValidDate(year, g.m, g.d) THEN [y |-> year, m |-> g.m, d |-> g.d]
               ELSE NoDate

\* intent.extract_due_date; the ISO date is the triple (y, m, d)
extract_due_date(text, today) ==
  LET low == Lower(text)
      w == FirstIn(low, WeekdayWords)
  IN  IF \E i \in Idx(low) : low[i] = "segodnya" THEN today
      ELSE IF \E i \in Idx(low) : low[i] = "zavtra" THEN AddDays(today, 1)
      ELSE IF w # 0 /\ low[w] \in DOMAIN _WEEKDAY_MAP
      THEN LET days_ahead == (_WEEKDAY_MAP[low[w]] - Weekday(today)) % 7
           IN  AddDays(today, IF days_ahead = 0 THEN 7 ELSE days_ahead)
      ELSE NumericDate(text, today)

\* _extract_due_date without the tomorrow keyword
_extract_due_date_NoTomorrow(text, today) ==
  LET low == Lower(text)
  IN  IF \E i \in Idx(low) : low[i] = "segodnya" THEN today
      ELSE NumericDate(text, today)

\* handlers/task._extract_due_date: no weekday rule
_extract_due_date(text, today) ==
  LET low == Lower(text)
  IN  IF \E i \in Idx(low) : low[i] = "segodnya" THEN today
      ELSE IF \E i \in Idx(low) : low[i] = "zavtra" THEN AddDays(today, 1)
      ELSE NumericDate(text, today)

\* ------------------------------------------------------ query rendering

\* _format_tasks_reply without the `if not tasks` case
_format_tasks_reply_NoEmptyCase(tasks, query_type) ==
  << [line |-> "header", scope |-> query_type] >>
  \o [i \in 1..Len(tasks) |->
        [line |-> "task", name |-> tasks[i].name,
         due |-> IF tasks[i].due_date # "" THEN tasks[i].due_date ELSE None,
         status |-> IF tasks[i].status # "" /\ query_type = ALL
                    THEN tasks[i].status ELSE None]]
  \o << [line |-> "count", n |-> Len(tasks)] >>

\* _format_tasks_reply that shows the status whatever the scope
_format_tasks_reply_StatusAlways(tasks, query_type) ==
  IF tasks = <<>>
  THEN << [line |-> "label", scope |-> query_type], [line |-> "no_tasks"] >>
  ELSE << [line |-> "header", scope |-> query_type] >>
       \o [i \in 1..Len(tasks) |->
             [line |-> "task", name |-> tasks[i].name,
              due |-> IF tasks[i].due_date # "" THEN tasks[i].due_date ELSE None,
              status |-> IF tasks[i].status # "" THEN tasks[i].status ELSE None]]
       \o << [line |-> "count", n |-> Len(tasks)] >>

\* notion._format_tasks_reply: the reply as a list of lines
_format_tasks_reply(tasks, query_type) ==
  IF tasks = <<>>
  THEN << [line |-> "label", scope |-> query_type], [line |-> "no_tasks"] >>
  ELSE << [line |-> "header", scope |-> query_type] >>
       \o [i \in 1..Len(tasks) |->
             [line |-> "task", name |-> tasks[i].name,
              due |-> IF tasks[i].due_date # "" THEN tasks[i].due_date ELSE None,
              status |-> IF tasks[i].status # "" /\ query_type = ALL
                         THEN tasks[i].status ELSE None]]
       \o << [line |-> "count", n |-> Len(tasks)] >>

\* ------------------------------------------------------- delegated agent

DEFAULT_TIMEOUT == 1200
POLL_INTERVAL == 30

\* What the worker thread running execute_prompt will do: building the
\* prompt raises, the CLI is missing, subprocess.run raises something else,
\* or the child runs for dur seconds.
WorkPlans ==
  { [kind |-> "context_raises", dur |-> 0], [kind |-> "not_found", dur |-> 0],
    [kind |-> "crash", dur |-> 0] }
  \cup { [kind |-> "run", dur |-> d] : d \in {10, 75, 90, 1500} }

Min(a, b) == IF a <= b THEN a ELSE b

\* seconds after its start at which the worker thread is finished
CompletionTime(plan) ==
  IF plan.kind = "run" THEN Min(plan.dur, DEFAULT_TIMEOUT) ELSE 0

\* how the child ends when it is not cut off: the CompletedProcess
ChildExits ==
  { [code |-> 0, stdout |-> "html", stderr |-> ""],
    [code |-> 0, stdout |-> "", stderr |-> "stderr"],
    [code |-> 1, stdout |-> "html", stderr |-> ""],
    [code |-> 1, stdout |-> "", stderr |-> "stderr"] }

\* no CompletedProcess: subprocess.run raised or has not returned
NoChild == [code |-> -1, stdout |-> "", stderr |-> ""]

\* _run_claude that reports the child's output whatever its return code
_run_claude_IgnoreCode(plan, exit) ==
  IF plan.kind = "not_found" THEN [error |-> "cli_not_installed"]
  ELSE IF plan.kind = "crash" THEN [error |-> "exception_text"]
  ELSE IF plan.dur > DEFAULT_TIMEOUT THEN [error |-> "timeout_20_min"]
  ELSE [report |-> exit.stdout]

\* processor._run_claude: the result dict for a plan and a child exit
_run_claude(plan, exit) ==
  IF plan.kind = "not_found" THEN [error |-> "cli_not_installed"]
  ELSE IF plan.kind = "crash" THEN [error |-> "exception_text"]
  ELSE IF plan.dur > DEFAULT_TIMEOUT THEN [error |-> "timeout_20_min"]
  ELSE IF exit.code # 0
  THEN [error |-> IF exit.stderr # "" THEN exit.stderr ELSE "claude_failed"]
  ELSE [report |-> exit.stdout]

IsError(res) == "error" \in DOMAIN res

\* settings.todoist_api_key
todoist_api_key == "todoist-key"

\* a variable the child finds as the bot's own environment has it
Inherited == "os.environ"

\* ClaudeProcessor.__init__(vault_path, todoist_api_key="", notion_token=""):
\* args are the positional arguments after vault_path
ClaudeProcessor(args) ==
  [todoist_api_key |-> IF Len(args) >= 1 THEN args[1] ELSE "",
   notion_token |-> IF Len(args) >= 2 THEN args[2] ELSE ""]

\* the processor each handler constructs
ProcessorOf(h, token) ==
  IF h \in { "text", "voice" } THEN ClaudeProcessor(<< token >>)
  ELSE ClaudeProcessor(<< todoist_api_key, token >>)

\* _run_claude: the two overrides laid over os.environ.copy()
ChildEnv(self) ==
  [TODOIST_API_KEY |-> IF self.todoist_api_key # "" THEN self.todoist_api_key ELSE Inherited,
   NOTION_TOKEN |-> IF self.notion_token # "" THEN self.notion_token ELSE Inherited]

\* ---------------------------------------------------------------- state

\* most messages handled in one run
MaxMessages == 2

VARIABLES
  notion_token,   \* settings.notion_token ("" when not configured)
  today,          \* date.today()
  fsm_state,      \* the FSM state of the chat (FSMContext)
  vault,          \* daily file: the records written by append_to_daily
  session_log,    \* session store: the records written by session.append
  n_msgs,         \* messages received so far; a message's id is its number
  handler,        \* the handler running for the current message
  pc,             \* where that handler is suspended
  text,           \* message.text, the transcript, or the /task text
  intent,         \* the routed intent
  fields,         \* task_name, project, due_date, query_type
  work,           \* what the worker thread of run_with_progress will do
  now,            \* run_with_progress: elapsed
  result,         \* the dict returned by execute_prompt
  child,          \* how the claude child process ended (CompletedProcess)
  api_calls,      \* collaborator calls made for this message, in order
  sent,           \* messages delivered to the user for this message
  status_text,    \* what the status message shows after its last edit
  updates,        \* progress edits attempted by run_with_progress
  outcome,        \* "returned" or "raised" once the handler has ended
  fails,          \* the failures met while handling this message
  classify_calls, \* classify() invocations for this message
  due_calls,      \* due-date extractions for this message
  fnText, fnOut,  \* input and output of the pure function under check
  conc            \* the handlers in flight when messages are handled concurrently

cfgVars == << notion_token, today >>
logVars == << vault, session_log >>
fnVars == << fnText, fnOut, conc >>
vars ==
  << notion_token, today, fsm_state, vault, session_log, n_msgs, handler, pc,
     text, intent, fields, work, now, result, child, api_calls, sent, status_text,
     updates, outcome, fails, classify_calls, due_calls, fnText, fnOut, conc >>

\* what users say to the bot
Utterances ==
  { << "Dobav", "zadachu", "moloko", "zavtra" >>,
    << "dobav", "zadachu" >>,
    << "dobav", "zadachu", "v", "proekt", "Video", "moloko" >>,
    << "Pokazhi", "zadachi", "na", "segodnya" >>,
    << "perenesi", "moloko", "na", "pyatnicu" >>,
    << "moloko" >> }

\* what users put after /task
TaskTexts == { << "moloko", "zavtra" >>, << "moloko", "15.03" >> }

\* what query_tasks can return
QueryResults ==
  { << >>, << [name |-> "moloko", status |-> "In progress", due_date |-> ""] >> }

NoFields == [task_name |-> << >>, project |-> None, due_date |-> NoDate, query_type |-> None]
NoWork == [kind |-> "none", dur |-> 0]
NoResult == [unset |-> TRUE]

\* ---------------------------------------------------------------- routing

\* route without the token test: every text is classified
route_Unconditional(t, token) == [intent |-> classify(t), classified |-> 1]

\* text.py / voice.py: intent = classify(text) if settings.notion_token else Intent.SAVE
route(t, token) ==
  IF token # "" THEN [intent |-> classify(t), classified |-> 1]
  ELSE [intent |-> SAVE, classified |-> 0]

\* the branch of the if / elif chain taken for an intent
branch(it) ==
  CASE it = CREATE_TASK -> "create_call"
    [] it = QUERY_TASKS -> "query_call"
    [] it = NOTION_ACTION -> "status_send"
    [] OTHER -> "save_reply"

\* the fields computed before the first await of the branch
extract_fields(it, t, day) ==
  IF it = CREATE_TASK
  THEN LET p == extract_project(extract_task_name(t))
       IN  [task_name |-> p.text, project |-> p.project,
            due_date |-> extract_due_date(t, day), query_type |-> None]
  ELSE IF it = QUERY_TASKS
  THEN [NoFields EXCEPT !.query_type = classify_query(t)]
  ELSE NoFields

VaultEntry(src, t, id, suffix) == [text |-> t, ts |-> id, tag |-> << src, suffix >>]
SessionEntry(src, t, id) == [type |-> src, text |-> t, msg_id |-> id]

\* VaultStorage.append_to_daily: one record added at the end of the daily file
append_to_daily(entry) == vault' = Append(vault, entry)

\* SessionStore.append: a single atomic write of one record at the end
SessionStore_append(entry) == session_log' = Append(session_log, entry)

\* SessionStore.get_today: the entries of the day, oldest first
SessionStore_get_today == session_log

\* the session append without the append to the daily file
Archive_SessionOnly(src, t, id, suffix) ==
  /\ vault' = vault
  /\ SessionStore_append(SessionEntry(src, t, id))

\* storage.append_to_daily(...) followed by session.append(...)
Archive(src, t, id, suffix) ==
  /\ append_to_daily(VaultEntry(src, t, id, suffix))
  /\ SessionStore_append(SessionEntry(src, t, id))

\* an exception leaves the current frame: handle_voice catches it in its
\* except block, the other handlers let it out
Raise ==
  IF handler = "voice"
  THEN pc' = "v_except" /\ outcome' = outcome
  ELSE pc' = "done" /\ outcome' = "raised"

Return == pc' = "done" /\ outcome' = "returned"

\* The synchronous prefix of the routing code: the intent, the fields and the
\* branch entered, with the number of classify and due-date calls it made.
dispatch(t, token, day) ==
  LET r == route(t, token)
  IN  [intent |-> r.intent, classified |-> r.classified,
       fields |-> extract_fields(r.intent, t, day),
       extracted |-> IF r.intent = CREATE_TASK THEN 1 ELSE 0,
       pc |-> branch(r.intent)]

\* a prefix that routes nothing and continues at `where`
Skip(where) ==
  [intent |-> "unset", classified |-> 0, fields |-> NoFields, extracted |-> 0, pc |-> where]

\* a fresh frame for message number n_msgs + 1
Begin(h, t, d) ==
  /\ pc \in {"idle", "done"}
  /\ n_msgs < MaxMessages
  /\ n_msgs' = n_msgs + 1
  /\ handler' = h
  /\ text' = t
  /\ intent' = d.intent
  /\ classify_calls' = d.classified
  /\ fields' = d.fields
  /\ due_calls' = d.extracted
  /\ pc' = d.pc
  /\ outcome' = IF d.pc = "done" THEN "returned" ELSE "running"
  /\ work' = NoWork /\ now' = 0 /\ result' = NoResult /\ child' = NoChild
  /\ api_calls' = << >> /\ sent' = << >> /\ status_text' = None
  /\ updates' = 0 /\ fails' = {}
  /\ UNCHANGED << cfgVars, fnVars >>

\* what a step leaves alone unless it says otherwise
frameVars == << handler, text, intent, fields, classify_calls, due_calls, n_msgs >>
agentVars == << work, now, result, child, status_text, updates >>

\* message.answer(...) raised
SendFails ==
  /\ fails' = fails \cup {"telegram"}
  /\ sent' = sent
  /\ Raise

\* ------------------------------------------------------------ handle_text

\* handle_text up to its first await
TextStart ==
  \E t \in Utterances, from_user \in BOOLEAN :
    IF ~from_user
    THEN Begin("text", t, Skip("done")) /\ UNCHANGED << logVars, fsm_state >>
    ELSE LET d == dispatch(t, notion_token, today)
         IN  /\ Begin("text", t, d)
             /\ IF d.pc = "save_reply"
                THEN Archive("text", t, n_msgs + 1, "")
                ELSE UNCHANGED logVars
             /\ UNCHANGED fsm_state

\* ------------------------------------------- the branches (text and voice)

Routed == handler \in {"text", "voice"}

\* client.create_task(task_name, due_date, project): returns or raises
CreateCall ==
  /\ pc = "create_call"
  /\ api_calls' = Append(api_calls, [api |-> "create", title |-> fields.task_name,
                                     due_date |-> fields.due_date,
                                     project |-> fields.project])
  /\ \E ok \in BOOLEAN :
       IF ok THEN pc' = "create_ok_reply" /\ fails' = fails
       ELSE pc' = "create_fail_reply" /\ fails' = fails \cup {"create"}
  /\ UNCHANGED << cfgVars, fnVars, logVars, fsm_state, frameVars, agentVars, sent, outcome >>

\* a handler that tries create_task again after it raised
CreateFailReply_Retry ==
  /\ pc = "create_fail_reply"
  /\ pc' = "create_call"
  /\ UNCHANGED << cfgVars, fnVars, logVars, fsm_state, frameVars, agentVars, api_calls,
                  sent, outcome, fails >>

\* except Exception: message.answer("Не удалось создать задачу"); return
CreateFailReply ==
  /\ pc = "create_fail_reply"
  /\ \E ok \in BOOLEAN :
       IF ok THEN sent' = Append(sent, [kind |-> "create_failed"]) /\ fails' = fails /\ Return
       ELSE SendFails
  /\ UNCHANGED << cfgVars, fnVars, logVars, fsm_state, frameVars, agentVars, api_calls >>

\* message.answer("Задача добавлена"), then the two appends (text and voice)
CreateOkReply ==
  /\ pc = "create_ok_reply"
  /\ \E ok \in BOOLEAN :
       IF ok
       THEN /\ sent' = Append(sent, [kind |-> "task_added"]) /\ fails' = fails /\ Return
            /\ IF Routed THEN Archive(handler, text, n_msgs, "task") ELSE UNCHANGED logVars
       ELSE SendFails /\ UNCHANGED logVars
  /\ UNCHANGED << cfgVars, fnVars, fsm_state, frameVars, agentVars, api_calls >>

\* client.query_tasks(query_type.value): returns the tasks or raises
QueryCall ==
  /\ pc = "query_call"
  /\ api_calls' = Append(api_calls, [api |-> "query", scope |-> fields.query_type])
  /\ \/ \E r \in QueryResults :
          pc' = "query_ok_reply" /\ fails' = fails /\ result' = [tasks |-> r]
     \/ pc' = "query_fail_reply" /\ fails' = fails \cup {"query"} /\ result' = result
  /\ UNCHANGED << cfgVars, fnVars, logVars, fsm_state, frameVars, work, now, child,
                  status_text, updates, sent, outcome >>

\* except Exception: message.answer("Не удалось получить задачи"); return
QueryFailReply ==
  /\ pc = "query_fail_reply"
  /\ \E ok \in BOOLEAN :
       IF ok THEN sent' = Append(sent, [kind |-> "query_failed"]) /\ fails' = fails /\ Return
       ELSE SendFails
  /\ UNCHANGED << cfgVars, fnVars, logVars, fsm_state, frameVars, agentVars, api_calls >>

\* message.answer(_format_tasks_reply(...)), then the two appends
QueryOkReply ==
  /\ pc = "query_ok_reply"
  /\ \E ok \in BOOLEAN :
       IF ok
       THEN /\ sent' = Append(sent, [kind |-> "tasks",
                                  body |-> _format_tasks_reply(result.tasks, fields.query_type)])
            /\ fails' = fails /\ Return
            /\ Archive(handler, text, n_msgs, "query")
       ELSE SendFails /\ UNCHANGED logVars
  /\ UNCHANGED << cfgVars, fnVars, fsm_state, frameVars, agentVars, api_calls >>

\* status_msg = message.answer("Выполняю..."); then run_with_progress starts
\* the worker thread on processor.execute_prompt(text, user_id)
StatusSend ==
  /\ pc = "status_send"
  /\ \E ok \in BOOLEAN :
       IF ok
       THEN /\ sent' = Append(sent, [kind |-> "status"]) /\ status_text' = "working"
            /\ \E plan \in WorkPlans : work' = plan
            /\ api_calls' = Append(api_calls,
                                   [api |-> "agent", prompt |-> text,
                                    env |-> ChildEnv(ProcessorOf(handler, notion_token))])
            /\ now' = 0
            /\ pc' = "rwp_sleep" /\ outcome' = outcome /\ fails' = fails
       ELSE SendFails /\ UNCHANGED << work, api_calls, now, status_text >>
  /\ UNCHANGED << cfgVars, fnVars, logVars, fsm_state, frameVars, result, child, updates >>

\* the polling loop without the second task.done() test: it edits the status
\* after every sleep
RwpSleep_NoRecheck ==
  /\ pc = "rwp_sleep"
  /\ now' = now + POLL_INTERVAL
  /\ pc' = "rwp_edit"
  /\ UNCHANGED << cfgVars, fnVars, logVars, fsm_state, frameVars, work, result, child,
                  status_text, updates, api_calls, sent, outcome, fails >>

\* the polling loop seeing the completion one interval late
RwpSleep_LateCheck ==
  /\ pc = "rwp_sleep"
  /\ now' = now + POLL_INTERVAL
  /\ pc' = IF CompletionTime(work) + POLL_INTERVAL < now' THEN "rwp_return" ELSE "rwp_edit"
  /\ UNCHANGED << cfgVars, fnVars, logVars, fsm_state, frameVars, work, result, child,
                  status_text, updates, api_calls, sent, outcome, fails >>

\* run_with_progress: asyncio.sleep(30); elapsed += 30; is the task done?
\* The worker thread has returned once CompletionTime(work) <= now.  When it
\* returns as the sleep ends, task.done() may still be False: the event loop
\* marks the task done only when it runs the thread's completion callback.
RwpSleep ==
  /\ pc = "rwp_sleep"
  /\ now' = now + POLL_INTERVAL
  /\ \E race \in BOOLEAN :
       LET done == CompletionTime(work) < now'
                     \/ (CompletionTime(work) = now' /\ race)
       IN  pc' = IF done THEN "rwp_return" ELSE "rwp_edit"
  /\ UNCHANGED << cfgVars, fnVars, logVars, fsm_state, frameVars, work, result, child,
                  status_text, updates, api_calls, sent, outcome, fails >>

\* the progress edit without its try / except: a refused edit leaves
\* run_with_progress as an exception
RwpEdit_Propagate ==
  /\ pc = "rwp_edit"
  /\ updates' = updates + 1
  /\ \E ok \in BOOLEAN :
       IF ok
       THEN /\ status_text' = "progress" /\ fails' = fails /\ outcome' = outcome
            /\ \E race \in BOOLEAN :
                 pc' = IF CompletionTime(work) = now /\ race THEN "rwp_return" ELSE "rwp_sleep"
       ELSE /\ status_text' = status_text /\ fails' = fails \cup {"progress_edit"}
            /\ Raise
  /\ UNCHANGED << cfgVars, fnVars, logVars, fsm_state, frameVars, work, now, result, child,
                  api_calls, sent >>

\* run_with_progress: status_msg.edit_text(progress), errors ignored; then the
\* loop condition
RwpEdit ==
  /\ pc = "rwp_edit"
  /\ updates' = updates + 1
  /\ \E ok \in BOOLEAN :
       /\ status_text' = IF ok THEN "progress" ELSE status_text
       /\ fails' = IF ok THEN fails ELSE fails \cup {"progress_edit"}
  /\ \E race \in BOOLEAN :
       pc' = IF CompletionTime(work) = now /\ race THEN "rwp_return" ELSE "rwp_sleep"
  /\ UNCHANGED << cfgVars, fnVars, logVars, fsm_state, frameVars, work, now, result, child,
                  api_calls, sent, outcome >>

\* run_with_progress: return await task - the result of execute_prompt, or
\* the exception it raised
RwpReturn ==
  /\ pc = "rwp_return"
  /\ IF work.kind = "context_raises"
     THEN /\ fails' = fails \cup {"context"} /\ Raise
          /\ result' = result /\ child' = child
     ELSE /\ IF work.kind = "run" /\ work.dur <= DEFAULT_TIMEOUT
             THEN child' \in ChildExits
             ELSE child' = NoChild
          /\ result' = _run_claude(work, child')
          /\ fails' = fails \cup (IF IsError(result') THEN {"agent"} ELSE {})
          /\ pc' = "final_edit" /\ outcome' = outcome
  /\ UNCHANGED << cfgVars, fnVars, logVars, fsm_state, frameVars, work, now,
                  status_text, updates, api_calls, sent >>

\* status_msg.edit_text(error or report), then the two appends
FinalEdit ==
  /\ pc = "final_edit"
  /\ \E ok \in BOOLEAN :
       IF ok
       THEN /\ status_text' = IF IsError(result) THEN result.error ELSE result.report
            /\ Archive(handler, text, n_msgs, "action")
            /\ fails' = fails /\ Return
       ELSE /\ status_text' = status_text /\ UNCHANGED logVars
            /\ fails' = fails \cup {"telegram"}
            /\ IF IsError(result) THEN Raise
               ELSE pc' = "final_edit_plain" /\ outcome' = outcome
  /\ UNCHANGED << cfgVars, fnVars, fsm_state, frameVars, work, now, result, child,
                  updates, api_calls, sent >>

\* except Exception: status_msg.edit_text(report, parse_mode=None)
FinalEditPlain ==
  /\ pc = "final_edit_plain"
  /\ \E ok \in BOOLEAN :
       IF ok
       THEN /\ status_text' = result.report
            /\ Archive(handler, text, n_msgs, "action")
            /\ fails' = fails /\ Return
       ELSE /\ status_text' = status_text /\ UNCHANGED logVars
            /\ fails' = fails /\ Raise
  /\ UNCHANGED << cfgVars, fnVars, fsm_state, frameVars, work, now, result, child,
                  updates, api_calls, sent >>

\* default branch: message.answer("Сохранено") after the two appends
SaveReply ==
  /\ pc = "save_reply"
  /\ \E ok \in BOOLEAN :
       IF ok THEN sent' = Append(sent, [kind |-> "saved"]) /\ fails' = fails /\ Return
       ELSE SendFails
  /\ UNCHANGED << cfgVars, fnVars, logVars, fsm_state, frameVars, agentVars, api_calls >>

\* ----------------------------------------------------------- handle_voice

\* handle_voice up to message.chat.do("typing")
VoiceStart ==
  \E from_user \in BOOLEAN :
    /\ Begin("voice", << >>, Skip(IF from_user THEN "v_typing" ELSE "done"))
    /\ UNCHANGED << logVars, fsm_state >>

\* await message.chat.do(action="typing"): before the try block
VoiceTyping ==
  /\ pc = "v_typing"
  /\ \E ok \in BOOLEAN :
       IF ok THEN pc' = "v_get_file" /\ outcome' = outcome /\ fails' = fails
       ELSE pc' = "done" /\ outcome' = "raised" /\ fails' = fails \cup {"telegram"}
  /\ UNCHANGED << cfgVars, fnVars, logVars, fsm_state, frameVars, agentVars, api_calls, sent >>

\* bot.get_file(...): raises, gives no file_path, or gives one
VoiceGetFile ==
  /\ pc = "v_get_file"
  /\ \E got \in {"raise", "no_path", "ok"} :
       /\ pc' = CASE got = "raise" -> "v_except"
                  [] got = "no_path" -> "v_download_failed"
                  [] OTHER -> "v_download"
       /\ fails' = IF got = "ok" THEN fails ELSE fails \cup {"download"}
  /\ UNCHANGED << cfgVars, fnVars, logVars, fsm_state, frameVars, agentVars, api_calls,
                  sent, outcome >>

\* bot.download_file(...): raises, gives nothing, or gives the bytes
VoiceDownload ==
  /\ pc = "v_download"
  /\ \E got \in {"raise", "empty", "ok"} :
       /\ pc' = CASE got = "raise" -> "v_except"
                  [] got = "empty" -> "v_download_failed"
                  [] OTHER -> "v_transcribe"
       /\ fails' = IF got = "ok" THEN fails ELSE fails \cup {"download"}
  /\ UNCHANGED << cfgVars, fnVars, logVars, fsm_state, frameVars, agentVars, api_calls,
                  sent, outcome >>

\* message.answer("Не удалось скачать голосовое"); return
VoiceDownloadFailed ==
  /\ pc = "v_download_failed"
  /\ \E ok \in BOOLEAN :
       IF ok THEN sent' = Append(sent, [kind |-> "download_failed"]) /\ fails' = fails /\ Return
       ELSE SendFails
  /\ UNCHANGED << cfgVars, fnVars, logVars, fsm_state, frameVars, agentVars, api_calls >>

\* transcriber.transcribe(...): raises, gives an empty transcript, or gives a
\* transcript, which is routed at once
VoiceTranscribe ==
  /\ pc = "v_transcribe"
  /\ \/ /\ pc' = "v_except" /\ fails' = fails \cup {"transcribe"}
        /\ UNCHANGED << text, intent, fields, classify_calls, due_calls, logVars >>
     \/ /\ pc' = "v_no_speech" /\ fails' = fails \cup {"transcribe"}
        /\ UNCHANGED << text, intent, fields, classify_calls, due_calls, logVars >>
     \/ \E t \in Utterances :
          LET d == dispatch(t, notion_token, today)
          IN  /\ text' = t /\ intent' = d.intent /\ fields' = d.fields
              /\ classify_calls' = d.classified /\ due_calls' = d.extracted
              /\ pc' = d.pc /\ fails' = fails
              /\ IF d.pc = "save_reply"
                 THEN Archive("voice", t, n_msgs, "")
                 ELSE UNCHANGED logVars
  /\ UNCHANGED << cfgVars, fnVars, fsm_state, handler, n_msgs, agentVars, api_calls,
                  sent, outcome >>

\* message.answer("Не удалось распознать речь"); return
VoiceNoSpeech ==
  /\ pc = "v_no_speech"
  /\ \E ok \in BOOLEAN :
       IF ok THEN sent' = Append(sent, [kind |-> "no_speech"]) /\ fails' = fails /\ Return
       ELSE SendFails
  /\ UNCHANGED << cfgVars, fnVars, logVars, fsm_state, frameVars, agentVars, api_calls >>

\* except Exception as e: message.answer("Ошибка: e")
VoiceExcept ==
  /\ pc = "v_except"
  /\ \E ok \in BOOLEAN :
       IF ok THEN sent' = Append(sent, [kind |-> "error"]) /\ fails' = fails /\ Return
       ELSE /\ sent' = sent /\ fails' = fails \cup {"telegram"}
            /\ pc' = "done" /\ outcome' = "raised"
  /\ UNCHANGED << cfgVars, fnVars, logVars, fsm_state, frameVars, agentVars, api_calls >>

\* ------------------------------------------------------------------ /task

WAITING == "TaskCommandState:waiting_for_input"

\* _create_task without the token check
create_task_entry_Unchecked(t, token, day) ==
  [intent |-> "unset", classified |-> 0,
   fields |-> [NoFields EXCEPT !.task_name = t, !.due_date = _extract_due_date(t, day)],
   extracted |-> 1, pc |-> "create_call"]

\* _create_task up to its first await: the token check, then the due date
create_task_entry(t, token, day) ==
  IF token = "" THEN Skip("t_not_configured")
  ELSE [intent |-> "unset", classified |-> 0,
        fields |-> [NoFields EXCEPT !.task_name = t, !.due_date = _extract_due_date(t, day)],
        extracted |-> 1, pc |-> "create_call"]

\* cmd_task: with arguments _create_task, without them the waiting state
CmdTask ==
  \/ \E args \in TaskTexts :
       /\ Begin("task", args, create_task_entry(args, notion_token, today))
       /\ UNCHANGED << logVars, fsm_state >>
  \/ /\ Begin("task", << >>, Skip("t_ask"))
     /\ fsm_state' = WAITING
     /\ UNCHANGED logVars

\* message.answer("Какую задачу добавить?")
TaskAsk ==
  /\ pc = "t_ask"
  /\ \E ok \in BOOLEAN :
       IF ok THEN sent' = Append(sent, [kind |-> "which_task"]) /\ fails' = fails /\ Return
       ELSE SendFails
  /\ UNCHANGED << cfgVars, fnVars, logVars, fsm_state, frameVars, agentVars, api_calls >>

\* handle_task_input that leaves the state as it is
TaskInput_KeepState ==
  /\ fsm_state = WAITING
  /\ \/ /\ Begin("task_input", << >>, Skip("t_need_text"))
        /\ UNCHANGED << logVars, fsm_state >>
     \/ \E t \in TaskTexts :
          /\ Begin("task_input", t, create_task_entry(t, notion_token, today))
          /\ UNCHANGED << logVars, fsm_state >>

\* handle_task_input: a message while the chat is in waiting_for_input
TaskInput ==
  /\ fsm_state = WAITING
  /\ \/ /\ Begin("task_input", << >>, Skip("t_need_text"))
        /\ UNCHANGED << logVars, fsm_state >>
     \/ \E t \in TaskTexts :
          /\ Begin("task_input", t, create_task_entry(t, notion_token, today))
          /\ fsm_state' = None
          /\ UNCHANGED logVars

\* message.answer("Напиши текст задачи"); return
TaskNeedText ==
  /\ pc = "t_need_text"
  /\ \E ok \in BOOLEAN :
       IF ok THEN sent' = Append(sent, [kind |-> "need_text"]) /\ fails' = fails /\ Return
       ELSE SendFails
  /\ UNCHANGED << cfgVars, fnVars, logVars, fsm_state, frameVars, agentVars, api_calls >>

\* message.answer("NOTION_TOKEN не настроен"); return
TaskNotConfigured ==
  /\ pc = "t_not_configured"
  /\ \E ok \in BOOLEAN :
       IF ok THEN sent' = Append(sent, [kind |-> "not_configured"]) /\ fails' = fails /\ Return
       ELSE SendFails
  /\ UNCHANGED << cfgVars, fnVars, logVars, fsm_state, frameVars, agentVars, api_calls >>

\* ------------------------------------------------------------ the program

FnIdle == fnText = << >> /\ fnOut = [op |-> "none"]

\* most messages handled at the same time
MaxHandlers == 2

Handlers == 1..MaxHandlers

IdleHandler == [pc |-> "idle", intent |-> "unset", ctx |-> << >>, failed |-> FALSE, end |-> "none"]

ConcIdle == conc = [i \in Handlers |-> IdleHandler]

RouterIdle ==
  /\ fsm_state = None /\ vault = << >> /\ session_log = << >> /\ n_msgs = 0
  /\ handler = "idle" /\ pc = "idle" /\ text = << >> /\ intent = "unset"
  /\ fields = NoFields /\ work = NoWork /\ now = 0 /\ result = NoResult
  /\ child = NoChild
  /\ api_calls = << >> /\ sent = << >> /\ status_text = None /\ updates = 0
  /\ outcome = "none" /\ fails = {} /\ classify_calls = 0 /\ due_calls = 0

\* 2026-11-06 is a Friday
Init ==
  /\ notion_token \in {"", "secret"}
  /\ today = [y |-> 2026, m |-> 11, d |-> 6]
  /\ RouterIdle
  /\ FnIdle
  /\ ConcIdle

Next ==
  \/ TextStart \/ CreateCall \/ CreateFailReply \/ CreateOkReply
  \/ QueryCall \/ QueryFailReply \/ QueryOkReply
  \/ StatusSend \/ RwpSleep \/ RwpEdit \/ RwpReturn \/ FinalEdit \/ FinalEditPlain
  \/ SaveReply
  \/ VoiceStart \/ VoiceTyping \/ VoiceGetFile \/ VoiceDownload \/ VoiceDownloadFailed
  \/ VoiceTranscribe \/ VoiceNoSpeech \/ VoiceExcept
  \/ CmdTask \/ TaskAsk \/ TaskInput \/ TaskNeedText \/ TaskNotConfigured

Spec == Init /\ [][Next]_vars

\* -------------------------------------------------------------------- /do

DO_WAITING == "DoCommandState:waiting_for_input"

\* what users ask the agent to do
DoPrompts == { << "perenesi", "moloko", "na", "pyatnicu" >> }

\* cmd_do: with arguments process_request, without them the waiting state
CmdDo ==
  \/ \E args \in DoPrompts :
       /\ Begin("do", args, Skip("status_send"))
       /\ UNCHANGED << logVars, fsm_state >>
  \/ /\ Begin("do", << >>, Skip("d_ask"))
     /\ fsm_state' = DO_WAITING
     /\ UNCHANGED logVars

\* message.answer("Что сделать?")
DoAsk ==
  /\ pc = "d_ask"
  /\ \E ok \in BOOLEAN :
       IF ok THEN sent' = Append(sent, [kind |-> "what_to_do"]) /\ fails' = fails /\ Return
       ELSE SendFails
  /\ UNCHANGED << cfgVars, fnVars, logVars, fsm_state, frameVars, agentVars, api_calls >>

\* handle_do_input that clears the state only when it has a prompt
DoInput_ClearLate ==
  /\ fsm_state = DO_WAITING
  /\ \/ Begin("do_input", << >>, Skip("d_typing")) /\ fsm_state' = fsm_state
     \/ \E t \in DoPrompts : Begin("do_input", t, Skip("status_send")) /\ fsm_state' = None
     \/ Begin("do_input", << >>, Skip("d_reject")) /\ fsm_state' = fsm_state
  /\ UNCHANGED logVars

\* handle_do_input up to its second await: state.clear(), then the kind of
\* the message: a voice message, a text, or neither
DoInput ==
  /\ fsm_state = DO_WAITING
  /\ fsm_state' = None
  /\ \/ Begin("do_input", << >>, Skip("d_typing"))
     \/ \E t \in DoPrompts : Begin("do_input", t, Skip("status_send"))
     \/ Begin("do_input", << >>, Skip("d_reject"))
  /\ UNCHANGED logVars

\* await message.chat.do(action="typing"): before the try block
DoTyping ==
  /\ pc = "d_typing"
  /\ \E ok \in BOOLEAN :
       IF ok THEN pc' = "d_get_file" /\ outcome' = outcome /\ fails' = fails
       ELSE pc' = "done" /\ outcome' = "raised" /\ fails' = fails \cup {"telegram"}
  /\ UNCHANGED << cfgVars, fnVars, logVars, fsm_state, frameVars, agentVars, api_calls, sent >>

\* bot.get_file(...): raises, gives no file_path, or gives one
DoGetFile ==
  /\ pc = "d_get_file"
  /\ \E got \in {"raise", "no_path", "ok"} :
       /\ pc' = CASE got = "raise" -> "d_transcribe_failed"
                  [] got = "no_path" -> "d_download_failed"
                  [] OTHER -> "d_download"
       /\ fails' = IF got = "ok" THEN fails ELSE fails \cup {"download"}
  /\ UNCHANGED << cfgVars, fnVars, logVars, fsm_state, frameVars, agentVars, api_calls,
                  sent, outcome >>

\* bot.download_file(...): raises, gives nothing, or gives the bytes
DoDownload ==
  /\ pc = "d_download"
  /\ \E got \in {"raise", "empty", "ok"} :
       /\ pc' = CASE got = "raise" -> "d_transcribe_failed"
                  [] got = "empty" -> "d_download_failed"
                  [] OTHER -> "d_transcribe"
       /\ fails' = IF got = "ok" THEN fails ELSE fails \cup {"download"}
  /\ UNCHANGED << cfgVars, fnVars, logVars, fsm_state, frameVars, agentVars, api_calls,
                  sent, outcome >>

\* prompt = transcriber.transcribe(...): raises, gives an empty transcript,
\* or gives the prompt
DoTranscribe ==
  /\ pc = "d_transcribe"
  /\ \/ pc' = "d_transcribe_failed" /\ fails' = fails \cup {"transcribe"} /\ text' = text
     \/ pc' = "d_no_speech" /\ fails' = fails \cup {"transcribe"} /\ text' = text
     \/ \E t \in DoPrompts : pc' = "d_echo" /\ fails' = fails /\ text' = t
  /\ UNCHANGED << cfgVars, fnVars, logVars, fsm_state, handler, intent, fields,
                  classify_calls, due_calls, n_msgs, agentVars, api_calls, sent, outcome >>

\* the replies that end handle_do_input without a prompt; return
DoNoPrompt ==
  /\ pc \in { "d_download_failed", "d_transcribe_failed", "d_no_speech", "d_reject" }
  /\ \E ok \in BOOLEAN :
       IF ok THEN sent' = Append(sent, [kind |-> pc]) /\ fails' = fails /\ Return
       ELSE SendFails
  /\ UNCHANGED << cfgVars, fnVars, logVars, fsm_state, frameVars, agentVars, api_calls >>

\* message.answer(prompt): the transcript shown before the request is processed
DoEcho ==
  /\ pc = "d_echo"
  /\ \E ok \in BOOLEAN :
       IF ok THEN /\ sent' = Append(sent, [kind |-> "transcript"]) /\ fails' = fails
                  /\ pc' = "status_send" /\ outcome' = outcome
       ELSE SendFails
  /\ UNCHANGED << cfgVars, fnVars, logVars, fsm_state, frameVars, agentVars, api_calls >>

\* process_request: status_msg.edit_text(formatted)
DoFinalEdit ==
  /\ pc = "final_edit"
  /\ \E ok \in BOOLEAN :
       IF ok THEN status_text' = "formatted" /\ fails' = fails /\ Return
       ELSE /\ status_text' = status_text /\ fails' = fails \cup {"telegram"}
            /\ pc' = "final_edit_plain" /\ outcome' = outcome
  /\ UNCHANGED << cfgVars, fnVars, logVars, fsm_state, frameVars, work, now, result, child,
                  updates, api_calls, sent >>

\* except Exception: status_msg.edit_text(formatted, parse_mode=None)
DoFinalEditPlain ==
  /\ pc = "final_edit_plain"
  /\ \E ok \in BOOLEAN :
       IF ok THEN status_text' = "formatted" /\ fails' = fails /\ Return
       ELSE status_text' = status_text /\ fails' = fails /\ Raise
  /\ UNCHANGED << cfgVars, fnVars, logVars, fsm_state, frameVars, work, now, result, child,
                  updates, api_calls, sent >>

\* the /do conversation: cmd_do, handle_do_input and process_request, which
\* runs execute_prompt under run_with_progress
DoNext ==
  \/ CmdDo \/ DoAsk \/ DoInput \/ DoTyping \/ DoGetFile \/ DoDownload \/ DoTranscribe
  \/ DoNoPrompt \/ DoEcho
  \/ StatusSend \/ RwpSleep \/ RwpEdit \/ RwpReturn \/ DoFinalEdit \/ DoFinalEditPlain

SpecDo == Init /\ [][DoNext]_vars

\* ------------------------------------------------------ /process, /weekly

\* cmd_process, cmd_weekly up to their first await
CmdBatch ==
  /\ \E h \in { "process", "weekly" } : Begin(h, << >>, Skip("b_status"))
  /\ UNCHANGED << logVars, fsm_state >>

\* status_msg = message.answer(...); then run_with_progress starts the worker
\* thread on process_daily(date.today()) or generate_weekly.  process_daily
\* may find no daily file, and reads the skill file before it runs the
\* agent; generate_weekly goes straight to _run_claude.
BatchStatus ==
  /\ pc = "b_status"
  /\ \E ok \in BOOLEAN :
       IF ok
       THEN /\ sent' = Append(sent, [kind |-> "status"]) /\ status_text' = "working"
            /\ work' \in IF handler = "process"
                         THEN WorkPlans \cup { [kind |-> "no_daily", dur |-> 0] }
                         ELSE { w \in WorkPlans : w.kind # "context_raises" }
            /\ api_calls' = Append(api_calls,
                                   [api |-> IF handler = "process" THEN "process_daily"
                                            ELSE "generate_weekly"])
            /\ now' = 0
            /\ pc' = "rwp_sleep" /\ outcome' = outcome /\ fails' = fails
       ELSE SendFails /\ UNCHANGED << work, api_calls, now, status_text >>
  /\ UNCHANGED << cfgVars, fnVars, logVars, fsm_state, frameVars, result, child, updates >>

\* the handlers with the test of the report left out: they commit whatever
\* the work returned
BatchReturn_CommitAlways ==
  /\ pc = "rwp_return"
  /\ IF work.kind = "context_raises"
     THEN /\ fails' = fails \cup {"context"} /\ Raise
          /\ result' = result /\ child' = child
     ELSE /\ IF work.kind = "run" /\ work.dur <= DEFAULT_TIMEOUT
             THEN child' \in ChildExits
             ELSE child' = NoChild
          /\ result' = IF work.kind = "no_daily" THEN [error |-> "no_daily_file"]
                        ELSE _run_claude(work, child')
          /\ fails' = fails \cup (IF IsError(result') THEN {"agent"} ELSE {})
          /\ pc' = "b_commit"
          /\ outcome' = outcome
  /\ UNCHANGED << cfgVars, fnVars, logVars, fsm_state, frameVars, work, now,
                  status_text, updates, api_calls, sent >>

\* report = await run_with_progress(...): the dict of process_daily or
\* generate_weekly, or the exception of the work; then `if "error" not in
\* report`
BatchReturn ==
  /\ pc = "rwp_return"
  /\ IF work.kind = "context_raises"
     THEN /\ fails' = fails \cup {"context"} /\ Raise
          /\ result' = result /\ child' = child
     ELSE /\ IF work.kind = "run" /\ work.dur <= DEFAULT_TIMEOUT
             THEN child' \in ChildExits
             ELSE child' = NoChild
          /\ result' = IF work.kind = "no_daily" THEN [error |-> "no_daily_file"]
                        ELSE _run_claude(work, child')
          /\ fails' = fails \cup (IF IsError(result') THEN {"agent"} ELSE {})
          /\ pc' = IF IsError(result') THEN "final_edit" ELSE "b_commit"
          /\ outcome' = outcome
  /\ UNCHANGED << cfgVars, fnVars, logVars, fsm_state, frameVars, work, now,
                  status_text, updates, api_calls, sent >>

\* await asyncio.to_thread(git.commit_and_push, message): it returns, or
\* its exception leaves the handler
BatchCommit ==
  /\ pc = "b_commit"
  /\ api_calls' = Append(api_calls, [api |-> "commit_and_push"])
  /\ \E ok \in BOOLEAN :
       IF ok THEN pc' = "final_edit" /\ outcome' = outcome /\ fails' = fails
       ELSE fails' = fails \cup {"git"} /\ Raise
  /\ UNCHANGED << cfgVars, fnVars, logVars, fsm_state, frameVars, agentVars, sent >>

\* /process and /weekly; their final edit is the one of process_request
BatchNext ==
  \/ CmdBatch \/ BatchStatus \/ RwpSleep \/ RwpEdit \/ BatchReturn \/ BatchCommit
  \/ DoFinalEdit \/ DoFinalEditPlain

SpecBatch == Init /\ [][BatchNext]_vars

\* run_with_progress under the event loop: a sleep ends, a status update
\* that was started returns or fails, and the awaited task is resumed
SpecProgress ==
  SpecBatch /\ WF_vars(RwpSleep) /\ WF_vars(RwpEdit) /\ WF_vars(BatchReturn)

\* ------------------------------------------------ pure-function harness

FnInit ==
  /\ fnText \in Texts /\ fnOut = [op |-> "none"]
  /\ notion_token = "secret"
  /\ today = [y |-> 2026, m |-> 11, d |-> 6]
  /\ RouterIdle
  /\ ConcIdle

FnClassify ==
  /\ fnOut.op = "none"
  /\ fnOut' = [op |-> "classify", intent |-> classify(fnText)]
  /\ UNCHANGED << fnText, conc, cfgVars, logVars, fsm_state, frameVars, agentVars,
                  pc, api_calls, sent, outcome, fails >>

\* what the handlers do with a CREATE_TASK text: classify, then extract_task_name
FnTaskName ==
  /\ fnOut.op = "none"
  /\ fnOut' = [op |-> "extract_task_name", intent |-> classify(fnText),
               name |-> extract_task_name(fnText)]
  /\ UNCHANGED << fnText, conc, cfgVars, logVars, fsm_state, frameVars, agentVars,
                  pc, api_calls, sent, outcome, fails >>

FnNext == FnClassify \/ FnTaskName

SpecFn == FnInit /\ [][FnNext]_vars

\* longest text (in words) enumerated for extract_project
MaxProjectLen == 4

\* the words the inputs of extract_project are built from
ProjectVocabulary ==
  { "v", "proekt", "proekte", "video", "Video", "strategiyu", "moloko",
    "organizacii", "i", "associacii" }

ProjectTexts == SeqsUpTo(ProjectVocabulary, MaxProjectLen) \ { <<>> }

FnProjectInit ==
  /\ fnText \in ProjectTexts /\ fnOut = [op |-> "none"]
  /\ notion_token = "secret"
  /\ today = [y |-> 2026, m |-> 11, d |-> 6]
  /\ RouterIdle
  /\ ConcIdle

\* project, task_name = extract_project(task_name)
FnProject ==
  /\ fnOut.op = "none"
  /\ fnOut' = [op |-> "extract_project", project |-> extract_project(fnText).project,
               text |-> extract_project(fnText).text]
  /\ UNCHANGED << fnText, conc, cfgVars, logVars, fsm_state, frameVars, agentVars,
                  pc, api_calls, sent, outcome, fails >>

SpecProject == FnProjectInit /\ [][FnProject]_vars

\* longest text (in words) enumerated for extract_due_date
MaxDateLen == 2

\* the words the inputs of extract_due_date are built from
DateVocabulary ==
  { "segodnya", "zavtra", "Zavtra", "ponedelnik", "vtornik", "sreda", "sredu",
    "sred", "chetverg", "pyatnica", "pyatnicu", "Pyatnicu", "pyatnic",
    "subbota", "subbotu", "subbot", "voskresene", "moloko",
    "15.03", "31.11", "7/11/26" }

DateTexts == SeqsUpTo(DateVocabulary, MaxDateLen) \ { <<>> }

\* date.today(): one of the seven days from Monday 2026-12-28 to Sunday 2027-01-03
Todays == { AddDays([y |-> 2026, m |-> 12, d |-> 28], k) : k \in 0..6 }

FnDateInit ==
  /\ fnText \in DateTexts /\ fnOut = [op |-> "none"]
  /\ notion_token = "secret"
  /\ today \in Todays
  /\ RouterIdle
  /\ ConcIdle

\* due_date = extract_due_date(text)
FnDueDate ==
  /\ fnOut.op = "none"
  /\ fnOut' = [op |-> "extract_due_date", due_date |-> extract_due_date(fnText, today)]
  /\ UNCHANGED << fnText, conc, cfgVars, logVars, fsm_state, frameVars, agentVars,
                  pc, api_calls, sent, outcome, fails >>

SpecDate == FnDateInit /\ [][FnDueDate]_vars

\* longest text (in words) enumerated for the numeric date rule
MaxNumericLen == 2

\* keywords, a plain word and every numeric date of DateWords
NumericVocabulary == { "segodnya", "zavtra", "moloko" } \cup DOMAIN DateWords

NumericTexts == SeqsUpTo(NumericVocabulary, MaxNumericLen) \ { <<>> }

FnNumericInit ==
  /\ fnText \in NumericTexts /\ fnOut = [op |-> "none"]
  /\ notion_token = "secret"
  /\ today \in Todays
  /\ RouterIdle
  /\ ConcIdle

\* handlers/task.create_task_entry: due_date = _extract_due_date(text)
FnTaskDueDate ==
  /\ fnOut.op = "none"
  /\ fnOut' = [op |-> "_extract_due_date", due_date |-> _extract_due_date(fnText, today)]
  /\ UNCHANGED << fnText, conc, cfgVars, logVars, fsm_state, frameVars, agentVars,
                  pc, api_calls, sent, outcome, fails >>

SpecNumeric == FnNumericInit /\ [][FnDueDate \/ FnTaskDueDate]_vars

\* both due-date functions on the texts of the date harness, which name
\* weekdays as well
SpecAgree == FnDateInit /\ [][FnDueDate \/ FnTaskDueDate]_vars

\* longest text (in words) enumerated for classify_query
MaxQueryLen == 3

\* the words the inputs of classify_query are built from
QueryVocabulary ==
  { "pokazhi", "zadachi", "kakie", "dela", "prosrochennye", "zavtra", "segodnya",
    "sejchas", "na", "den", "v", "processe", "aktivn", "aktivnye", "moloko" }

QueryExample == << "kakie", "u", "menya", "dela", "na", "segodnya" >>

QueryTexts == (SeqsUpTo(QueryVocabulary, MaxQueryLen) \ { <<>> }) \cup { QueryExample }

FnQueryInit ==
  /\ fnText \in QueryTexts /\ fnOut = [op |-> "none"]
  /\ notion_token = "secret"
  /\ today = [y |-> 2026, m |-> 11, d |-> 6]
  /\ RouterIdle
  /\ ConcIdle

\* classify_query(text)
FnClassifyQuery ==
  /\ fnOut.op = "none"
  /\ fnOut' = [op |-> "classify_query", intent |-> classify(fnText),
               query_type |-> classify_query(fnText)]
  /\ UNCHANGED << fnText, conc, cfgVars, logVars, fsm_state, frameVars, agentVars,
                  pc, api_calls, sent, outcome, fails >>

\* the handlers: the intent is routed, and the scope is computed in the
\* QUERY_TASKS branch only
FnQueryFields ==
  /\ fnOut.op = "none"
  /\ LET it == route(fnText, notion_token).intent
     IN  fnOut' = [op |-> "handle", intent |-> it,
                   query_type |-> extract_fields(it, fnText, today).query_type]
  /\ UNCHANGED << fnText, conc, cfgVars, logVars, fsm_state, frameVars, agentVars,
                  pc, api_calls, sent, outcome, fails >>

SpecQuery == FnQueryInit /\ [][FnClassifyQuery \/ FnQueryFields]_vars

\* longest run of free pieces enumerated for _match_known_project
MaxMatchLen == 3

\* the pieces the inputs of _match_known_project are built from
MatchVocabulary ==
  { "organizacii", "i", "associacii", "video", "Video", "rolik", " ", ":", "2" }

\* the longest alias of _KNOWN_PROJECTS
LongAlias == << "organizacii", " ", "i", " ", "associacii" >>

\* runs of free pieces, alone or after the longest alias
MatchTexts ==
  (SeqsUpTo(MatchVocabulary, MaxMatchLen) \ { <<>> })
    \cup { LongAlias \o s : s \in SeqsUpTo(MatchVocabulary, MaxMatchLen) }

FnMatchInit ==
  /\ fnText \in MatchTexts /\ fnOut = [op |-> "none"]
  /\ notion_token = "secret"
  /\ today = [y |-> 2026, m |-> 11, d |-> 6]
  /\ RouterIdle
  /\ ConcIdle

\* proj, length = _match_known_project(after)
FnMatch ==
  /\ fnOut.op = "none"
  /\ fnOut' = [op |-> "_match_known_project", proj |-> _match_known_project(fnText).proj,
               len |-> _match_known_project(fnText).len]
  /\ UNCHANGED << fnText, conc, cfgVars, logVars, fsm_state, frameVars, agentVars,
                  pc, api_calls, sent, outcome, fails >>

SpecMatch == FnMatchInit /\ [][FnMatch]_vars

\* ------------------------------------------------------ session context

\* len(text): the characters of the words and of the spaces between them
Chars(t) == IF t = << >> THEN 0 ELSE SumLen(t, 1, Len(t)) - 1

\* text[:n]: the text with the number of its characters that are kept
Truncated(t, n) == [of |-> t, shown |-> IF Chars(t) <= n THEN Chars(t) ELSE n]

\* today_entries[-n:]
LastEntries(entries, n) ==
  IF Len(entries) <= n THEN entries ELSE SubSeq(entries, Len(entries) - n + 1, Len(entries))

HasText(entry) == entry.text # << >>

\* the line of one entry: its time, its type and the first 80 characters of its text
ContextLine(entry) ==
  [line |-> "entry", ts |-> entry.msg_id, type |-> entry.type,
   text |-> Truncated(entry.text, 80)]

\* _get_session_context over the first ten entries of the day
_get_session_context_FirstTen(user_id, today_entries) ==
  IF user_id = 0 THEN << >>
  ELSE IF today_entries = << >> THEN << >>
  ELSE << [line |-> "header"] >>
       \o [i \in 1..Len(SelectSeq(SubSeq(today_entries, 1, Len(LastEntries(today_entries, 10))), HasText)) |->
             ContextLine(SelectSeq(SubSeq(today_entries, 1, Len(LastEntries(today_entries, 10))), HasText)[i])]
       \o << [line |-> "footer"] >>

\* ClaudeProcessor._get_session_context: the context as a list of lines, the
\* empty list for the empty string
_get_session_context(user_id, today_entries) ==
  IF user_id = 0 THEN << >>
  ELSE IF today_entries = << >> THEN << >>
  ELSE << [line |-> "header"] >>
       \o [i \in 1..Len(SelectSeq(LastEntries(today_entries, 10), HasText)) |->
             ContextLine(SelectSeq(LastEntries(today_entries, 10), HasText)[i])]
       \o << [line |-> "footer"] >>

\* most entries in the session log of the day
MaxEntries == 12

\* texts of 0, 6, 80 and 90 characters
EmptyText == << >>
ShortText == << "moloko" >>
FullText == [i \in 1..7 |-> IF i = 7 THEN "na" ELSE "prosrochennye"]
LongText == [i \in 1..7 |-> "prosrochennye"]

\* a day of n entries: entry e has an empty text, entry f a text of 80
\* characters, entry l a text of 90, the others a short one
DayLog(n, e, f, l) ==
  [i \in 1..n |->
     SessionEntry(IF i % 2 = 0 THEN "voice" ELSE "text",
                  IF i = e THEN EmptyText ELSE IF i = l THEN LongText
                  ELSE IF i = f THEN FullText ELSE ShortText,
                  i)]

FnContextInit ==
  /\ \E n \in 0..MaxEntries :
       \E e \in 0..n, f \in 0..n, l \in 0..n : session_log = DayLog(n, e, f, l)
  /\ fnText \in { [user_id |-> u] : u \in { 0, 7 } }
  /\ fnOut = [op |-> "none"]
  /\ notion_token = "secret"
  /\ today = [y |-> 2026, m |-> 11, d |-> 6]
  /\ fsm_state = None /\ vault = << >> /\ n_msgs = 0
  /\ handler = "idle" /\ pc = "idle" /\ text = << >> /\ intent = "unset"
  /\ fields = NoFields /\ work = NoWork /\ now = 0 /\ result = NoResult
  /\ child = NoChild
  /\ api_calls = << >> /\ sent = << >> /\ status_text = None /\ updates = 0
  /\ outcome = "none" /\ fails = {} /\ classify_calls = 0 /\ due_calls = 0
  /\ ConcIdle

\* session_context = self._get_session_context(user_id)
FnContext ==
  /\ fnOut.op = "none"
  /\ fnOut' = [op |-> "_get_session_context",
               context |-> _get_session_context(fnText.user_id, SessionStore_get_today)]
  /\ UNCHANGED << fnText, conc, cfgVars, logVars, fsm_state, frameVars, agentVars,
                  pc, api_calls, sent, outcome, fails >>

SpecContext == FnContextInit /\ [][FnContext]_vars

\* ------------------------------------------------------ rendered queries

\* most records in a rendered query result
MaxTasks == 2

\* the records query_tasks builds: name, status and due date, "" when missing
TaskRecords ==
  [name : { "moloko", "hleb" }, status : { "", "In progress" }, due_date : { "", "2026-11-07" }]

QueryTypes == { OVERDUE, TODAY, TOMORROW, IN_PROGRESS, ALL }

FnFormatInit ==
  /\ fnText \in [tasks : SeqsUpTo(TaskRecords, MaxTasks), query_type : QueryTypes]
  /\ fnOut = [op |-> "none"]
  /\ notion_token = "secret"
  /\ today = [y |-> 2026, m |-> 11, d |-> 6]
  /\ RouterIdle
  /\ ConcIdle

\* _format_tasks_reply(tasks, query_type.value)
FnFormat ==
  /\ fnOut.op = "none"
  /\ fnOut' = [op |-> "_format_tasks_reply",
               reply |-> _format_tasks_reply(fnText.tasks, fnText.query_type)]
  /\ UNCHANGED << fnText, conc, cfgVars, logVars, fsm_state, frameVars, agentVars,
                  pc, api_calls, sent, outcome, fails >>

SpecFormat == FnFormatInit /\ [][FnFormat]_vars

\* ------------------------------------------- concurrently handled messages

\* aiogram runs the handler of every incoming message as its own coroutine
\* on one event loop: the code between two awaits of a handler runs without
\* interruption, and the handlers interleave at their awaits.  The worker
\* thread of run_with_progress runs beside the event loop.  Handler i handles
\* the message with id i; its locals are conc[i].

ConcText == << "moloko" >>

\* what the handlers in flight leave alone
routerFrame ==
  << cfgVars, fsm_state, frameVars, agentVars, pc, api_calls, sent, outcome, fails,
     fnText, fnOut >>

\* handle_text up to its first await, for any intent
ConcStart ==
  \E i \in Handlers, it \in Intents :
    /\ conc[i].pc = "idle"
    /\ conc' = [conc EXCEPT ![i].pc = branch(it), ![i].intent = it]
    /\ IF it = SAVE THEN Archive("text", ConcText, i, "") ELSE UNCHANGED logVars
    /\ UNCHANGED routerFrame

\* await client.create_task(...) / client.query_tasks(...)
ConcCall ==
  \E i \in Handlers, ok \in BOOLEAN :
    /\ conc[i].pc \in {"create_call", "query_call"}
    /\ conc' = [conc EXCEPT ![i].pc = IF ok THEN "ok_reply" ELSE "fail_reply",
                            ![i].failed = ~ok]
    /\ UNCHANGED << logVars, routerFrame >>

\* await message.answer(...): the reply of the create, query and default
\* branches, followed by the appends after a successful create or query
ConcReply ==
  \E i \in Handlers, ok \in BOOLEAN :
    /\ conc[i].pc \in {"ok_reply", "fail_reply", "save_reply"}
    /\ conc' = [conc EXCEPT ![i].pc = "done",
                            ![i].end = IF ~ok THEN "raised"
                                       ELSE IF conc[i].failed THEN "failed" ELSE "handled"]
    /\ IF ok /\ conc[i].pc = "ok_reply"
       THEN Archive("text", ConcText, i, IF conc[i].intent = CREATE_TASK THEN "task" ELSE "query")
       ELSE UNCHANGED logVars
    /\ UNCHANGED routerFrame

\* await message.answer("Выполняю..."), then run_with_progress starts the
\* worker thread
ConcStatus ==
  \E i \in Handlers, ok \in BOOLEAN :
    /\ conc[i].pc = "status_send"
    /\ conc' = [conc EXCEPT ![i].pc = IF ok THEN "thread_context" ELSE "done",
                            ![i].end = IF ok THEN "none" ELSE "raised"]
    /\ UNCHANGED << logVars, routerFrame >>

\* worker thread: execute_prompt reads today's session entries
ConcContext ==
  \E i \in Handlers :
    /\ conc[i].pc = "thread_context"
    /\ conc' = [conc EXCEPT ![i].pc = "thread_run", ![i].ctx = SessionStore_get_today]
    /\ UNCHANGED << logVars, routerFrame >>

\* worker thread: _run_claude returns a report or an error
ConcAgent ==
  \E i \in Handlers, err \in BOOLEAN :
    /\ conc[i].pc = "thread_run"
    /\ conc' = [conc EXCEPT ![i].pc = "final_edit", ![i].failed = err]
    /\ UNCHANGED << logVars, routerFrame >>

\* the final edit that reads the log back and rewrites it from the context
\* the worker thread read
ConcFinalEdit_WriteBack ==
  \E i \in Handlers, ok \in BOOLEAN :
    /\ conc[i].pc = "final_edit"
    /\ conc' = [conc EXCEPT ![i].pc = "done",
                            ![i].end = IF ~ok THEN "raised"
                                       ELSE IF conc[i].failed THEN "failed" ELSE "handled"]
    /\ IF ok
       THEN /\ session_log' = Append(conc[i].ctx, SessionEntry("text", ConcText, i))
            /\ append_to_daily(VaultEntry("text", ConcText, i, "action"))
       ELSE UNCHANGED logVars
    /\ UNCHANGED routerFrame

\* await status_msg.edit_text(error or report), then the two appends
ConcFinalEdit ==
  \E i \in Handlers, ok \in BOOLEAN :
    /\ conc[i].pc = "final_edit"
    /\ conc' = [conc EXCEPT ![i].pc = "done",
                            ![i].end = IF ~ok THEN "raised"
                                       ELSE IF conc[i].failed THEN "failed" ELSE "handled"]
    /\ IF ok THEN Archive("text", ConcText, i, "action") ELSE UNCHANGED logVars
    /\ UNCHANGED routerFrame

ConcInit ==
  /\ notion_token = "secret"
  /\ today = [y |-> 2026, m |-> 11, d |-> 6]
  /\ RouterIdle /\ FnIdle /\ ConcIdle

ConcNext ==
  \/ ConcStart \/ ConcCall \/ ConcReply
  \/ ConcStatus \/ ConcContext \/ ConcAgent \/ ConcFinalEdit

SpecConc == ConcInit /\ [][ConcNext]_vars

\* ------------------------------------------------------------------ C1

Calls(api) == { i \in DOMAIN api_calls : api_calls[i].api = api }

\* session-log records of the current message
SessionAppends == { i \in DOMAIN session_log : session_log[i].msg_id = n_msgs }

\* vault records of the current message
VaultAppends == { i \in DOMAIN vault : vault[i].ts = n_msgs }

\* the current message was routed by handle_text or handle_voice
Handled == Routed /\ intent \in Intents

Ended == pc = "done"

\* the collaborator call the intent table assigns to an intent
ApiOf(it) ==
  CASE it = CREATE_TASK -> "create"
    [] it = QUERY_TASKS -> "query"
    [] it = NOTION_ACTION -> "agent"
    [] OTHER -> "none"

\* the collaborator call of the branch was made and gave its result
CallSucceeded ==
  CASE intent = CREATE_TASK -> Calls("create") # {} /\ "create" \notin fails
    [] intent = QUERY_TASKS -> Calls("query") # {} /\ "query" \notin fails
    [] intent = NOTION_ACTION -> Calls("agent") # {} /\ "report" \in DOMAIN result
    [] OTHER -> VaultAppends # {}

\* ------------------------------------------------------------------ C2

\* C2: with no Notion token configured, handle_text and handle_voice never
\* call classify and take the SAVE branch for every utterance: no create,
\* query or agent call is made and the utterance is archived.
C2_NoTokenAlwaysSave ==
  notion_token = "" =>
    /\ classify_calls = 0
    /\ api_calls = << >>
    /\ (Routed /\ intent # "unset") =>
         /\ intent = SAVE
         /\ Cardinality(SessionAppends) = 1
         /\ \A i \in VaultAppends : vault[i].tag = << handler, "" >>

\* without a token, a voice transcript that asks for a task has been saved
C2_Witness ==
  /\ notion_token = ""
  /\ handler = "voice" /\ Ended
  /\ MatchesCreate(Lower(text))
  /\ intent = SAVE
  /\ Len(sent) = 1 /\ sent[1].kind = "saved"

\* ------------------------------------------------------------------ C3

\* C3: a routed utterance takes exactly the branch of its intent: only the
\* collaborator call the intent table assigns is ever made (none for SAVE),
\* it is made once the branch reaches its call site, and never a second
\* time, also after it failed.  (The NOTION_ACTION branch reaches its call
\* site once the status message has been sent.)
C3_OnePathOneAttempt ==
  Handled =>
    /\ \A i \in DOMAIN api_calls : api_calls[i].api = ApiOf(intent)
    /\ Len(api_calls) <= 1
    /\ pc = branch(intent) => api_calls = << >>
    /\ (intent \in {CREATE_TASK, QUERY_TASKS} /\ pc # branch(intent)) => Len(api_calls) = 1
    /\ (intent = NOTION_ACTION /\ sent # << >> /\ sent[1].kind = "status") => Len(api_calls) = 1
    /\ (intent = SAVE) => api_calls = << >>

\* a create call failed, the handler has ended, and the call was made once
C3_Witness ==
  /\ Handled /\ Ended
  /\ intent = CREATE_TASK
  /\ "create" \in fails
  /\ Len(api_calls) = 1

\* ------------------------------------------------------------------ C4

\* C4: on every branch, when the collaborator call succeeded, the handler
\* ends with exactly one session-log record of the utterance, whether or not
\* the response could be sent.
C4_AppendOnSuccess ==
  (Handled /\ Ended /\ CallSucceeded) => Cardinality(SessionAppends) = 1

\* ------------------------------------------------------------------ C5

\* C5: an utterance whose create call, query call or agent run failed is
\* still in the session log when its handler has ended (here: even when
\* every message to the user went through).
C5_AppendOnFailure ==
  (Handled /\ Ended /\ fails \cap {"create", "query", "agent"} # {} /\ "telegram" \notin fails)
    => SessionAppends # {}

\* ------------------------------------------------------------------ C6

\* C6: a failed create call, query call, agent run, download or
\* transcription leaves the user with exactly one message: never two, and
\* not zero when no message to the user was refused.
C6_OneReplyPerFailure ==
  (handler \in {"text", "voice"} /\ Ended
     /\ fails \cap {"create", "query", "agent", "download", "transcribe"} # {})
    => /\ Len(sent) <= 1
       /\ "telegram" \notin fails => Len(sent) = 1

\* ------------------------------------------------------------------ C7

\* C7: no failure of a collaborator (create, query, the agent run with the
\* building of its context, the archival write) leaves handle_text or
\* handle_voice as an exception: unless a message to the user was refused,
\* the handler returns.
C7_NothingRaised ==
  (handler \in {"text", "voice"} /\ Ended /\ "telegram" \notin fails) => outcome = "returned"

\* ------------------------------------------------------------------ C8

\* C8: the router never calls the create API with an empty title.
C8_NoEmptyTitle ==
  Routed => \A i \in Calls("create") : api_calls[i].title # << >>

\* ------------------------------------------------------------------ C9

\* C9: with no Notion token configured no due date is extracted and no
\* create call is made, and a requested task creation (/task with a text)
\* goes straight to the "not configured" reply, which is the only message it
\* sends.
C9_NotConfiguredShortCircuit ==
  notion_token = "" =>
    /\ due_calls = 0
    /\ Calls("create") = {}
    /\ (handler \in {"task", "task_input"} /\ text # << >>) =>
         /\ pc \in {"t_not_configured", "done"}
         /\ fields = NoFields
         /\ \A i \in DOMAIN sent : sent[i].kind = "not_configured"
         /\ (Ended /\ "telegram" \notin fails) => Len(sent) = 1

\* without a token, a task text given after /task got the "not configured" reply
C9_Witness ==
  /\ notion_token = ""
  /\ handler = "task_input" /\ text # << >> /\ Ended
  /\ Len(sent) = 1 /\ sent[1].kind = "not_configured"

\* ------------------------------------------------------------------ C10

\* C10: an agent run that exceeds DEFAULT_TIMEOUT gives the timeout error as
\* a result dict, not an exception, and the utterance ends with exactly one
\* session-log record.
C10_TimeoutStillLogged ==
  (Handled /\ Ended /\ work.kind = "run" /\ work.dur > DEFAULT_TIMEOUT)
    => /\ result = [error |-> "timeout_20_min"]
       /\ "context" \notin fails
       /\ Cardinality(SessionAppends) = 1

\* ------------------------------------------------------------------ C11

\* run_with_progress has returned the dict of this message's agent run
AgentReturned == intent = NOTION_ACTION /\ result # NoResult

\* C11: the dict an agent run returns has exactly one of the keys "report"
\* and "error": "report" exactly when the child exited with code 0, "error"
\* (with a non-empty text) when it exited non-zero, was cut off by the
\* timeout, was not found or subprocess.run raised.
C11_ReportXorError ==
  AgentReturned =>
    LET exited == work.kind = "run" /\ work.dur <= DEFAULT_TIMEOUT
    IN  /\ ("report" \in DOMAIN result) # ("error" \in DOMAIN result)
        /\ ("report" \in DOMAIN result) <=> (exited /\ child.code = 0)
        /\ ("error" \in DOMAIN result) <=> (~exited \/ child.code # 0)
        /\ IsError(result) => result.error # ""
        /\ (exited /\ child.code = 0) => result.report = child.stdout

\* a child that exited non-zero with nothing on stderr gave the default error
C11_Witness ==
  /\ AgentReturned
  /\ work.kind = "run" /\ child.code = 1 /\ child.stderr = ""
  /\ result = [error |-> "claude_failed"]

\* ------------------------------------------------------------------ C12

\* run_with_progress was started for this message
Supervised == work # NoWork

\* its polling loop has been left
LoopExited == Supervised /\ pc \notin {"rwp_sleep", "rwp_edit"}

\* intervals that ended while the work was certainly still running, and
\* intervals that ended no later than the work
IntervalsBefore(ct) == IF ct = 0 THEN 0 ELSE (ct - 1) \div POLL_INTERVAL
IntervalsUpTo(ct) == ct \div POLL_INTERVAL

\* C12: run_with_progress makes one status update per elapsed 30-second
\* interval at which the work is still running, without a cap: none when the
\* work takes less than one interval, 2 or 3 when it spans three intervals
\* (3 only when it ends on the boundary), and in general between
\* IntervalsBefore and IntervalsUpTo of the work's duration.
C12_UpdatesPerInterval ==
  Supervised =>
    LET ct == CompletionTime(work)
    IN  /\ updates <= IntervalsUpTo(ct)
        /\ LoopExited =>
             /\ updates >= IntervalsBefore(ct)
             /\ ct < POLL_INTERVAL => updates = 0
             /\ (2 * POLL_INTERVAL < ct /\ ct <= 3 * POLL_INTERVAL) => updates \in {2, 3}
             /\ (2 * POLL_INTERVAL < ct /\ ct < 3 * POLL_INTERVAL) => updates = 2

\* a work that ends on the third boundary got three updates
C12_Witness == LoopExited /\ work.dur = 3 * POLL_INTERVAL /\ updates = 3

\* ------------------------------------------------------------------ C13

\* the worker thread has returned from the work
WorkCompleted == Supervised /\ CompletionTime(work) <= now

\* C13: whatever the interleaving of the worker thread and the polling loop,
\* run_with_progress returns the value the work returned, and no status
\* update is started once the work has completed.
C13_NoUpdateAfterCompletion ==
  /\ AgentReturned => result = _run_claude(work, child)
  /\ pc = "rwp_edit" => ~WorkCompleted

\* ------------------------------------------------------------------ C14

\* C14: a refused progress edit is swallowed by run_with_progress: it does
\* not raise to the caller, the work is not cut short, and the work's result
\* is returned however many edits were refused.
C14_UpdateFailureSwallowed ==
  "progress_edit" \in fails =>
    /\ fails \cap {"telegram", "context"} = {} => (outcome # "raised" /\ pc # "v_except")
    /\ pc = "rwp_return" => WorkCompleted
    /\ AgentReturned => (WorkCompleted /\ result = _run_claude(work, child))

\* every one of at least two progress edits was refused, and the report of
\* the work has been returned
C14_Witness ==
  /\ pc = "final_edit"
  /\ "progress_edit" \in fails /\ updates >= 2 /\ status_text = "working"
  /\ "report" \in DOMAIN result

\* ------------------------------------------------------------------ C15

\* session-log records of the message with id i
EntriesOf(i) == { k \in DOMAIN session_log : session_log[k].msg_id = i }

C16_TriggerStripped ==
  (fnOut.op = "extract_task_name" /\ MatchesCreate(Lower(fnText)))
    => /\ fnOut.intent = CREATE_TASK
       /\ ~MatchesCreate(Lower(fnOut.name))

\* ------------------------------------------------------------------ C17

\* the text starts with "в проект(е/у)" and at least one more word
ExplicitForm(t) ==
  Len(t) >= 3 /\ LowerWord(t[1]) = "v" /\ LowerWord(t[2]) \in {"proekt", "proekte", "proektu"}

\* the text starts with a bare "в" and at least one more word
ImplicitForm(t) == ~ExplicitForm(t) /\ Len(t) >= 2 /\ LowerWord(t[1]) = "v"

\* the text after the prefix of its form
AfterPrefix(t) == IF ExplicitForm(t) THEN From(t, 3) ELSE From(t, 2)

\* a project phrase matches the text: a known alias after either prefix, or
\* any word after the explicit prefix
PhraseMatches(t) ==
  \/ ExplicitForm(t)
  \/ ImplicitForm(t) /\ MatchKnown(AfterPrefix(t)).proj # None

\* the words of the text that the matching phrase leaves over
Remainder(t) ==
  LET after == AfterPrefix(t)
      m == MatchKnown(after)
  IN  IF m.proj # None THEN From(after, m.n + 1) ELSE From(after, 2)

\* C17: extract_project never returns a project with an empty task text: a
\* project phrase (explicit known, explicit ad-hoc or implicit known) that
\* leaves nothing over is discarded and the result is (None, the text).
C17_NoEmptyBody ==
  fnOut.op = "extract_project" =>
    /\ fnOut.project # None => fnOut.text # << >>
    /\ (PhraseMatches(fnText) /\ Remainder(fnText) = << >>)
         => (fnOut.project = None /\ fnOut.text = fnText)

\* "в проекте видео", with nothing after the project, came back unchanged
C17_Witness ==
  /\ fnOut.op = "extract_project"
  /\ ExplicitForm(fnText) /\ MatchKnown(AfterPrefix(fnText)).proj = "Video"
  /\ Remainder(fnText) = << >>
  /\ fnOut.project = None /\ fnOut.text = fnText

\* ------------------------------------------------------------------ C18

\* C18: extract_project tries the explicit form, then the implicit one:
\* after "в проект(е/у)" a known alias gives the canonical project and the
\* rest of the text, an unknown word is taken as the project; after a bare
\* "в" only a known alias gives a project; any other text comes back as
\* (None, text).  "в проекте Видео купить камеру" gives ("Видео", "купить
\* камеру").
C18_ExplicitThenImplicit ==
  /\ fnOut.op = "extract_project" =>
       LET t == fnText
           m == MatchKnown(AfterPrefix(t))
           rest == Remainder(t)
           out == << fnOut.project, fnOut.text >>
       IN  /\ (ExplicitForm(t) /\ m.proj # None /\ rest # << >>) => out = << m.proj, rest >>
           /\ (ExplicitForm(t) /\ m.proj = None /\ rest # << >>) => out = << t[3], rest >>
           /\ (ImplicitForm(t) /\ m.proj # None /\ rest # << >>) => out = << m.proj, rest >>
           /\ (ImplicitForm(t) /\ m.proj = None) => out = << None, t >>
           /\ (~ExplicitForm(t) /\ ~ImplicitForm(t)) => out = << None, t >>
  /\ extract_project(<< "v", "proekte", "Video", "kupit", "kameru" >>)
       = [project |-> "Video", text |-> << "kupit", "kameru" >>]

\* an unknown word after "в проект" was taken as the project
C18_Witness ==
  /\ fnOut.op = "extract_project"
  /\ ExplicitForm(fnText) /\ MatchKnown(AfterPrefix(fnText)).proj = None
  /\ fnOut.project = fnText[3] /\ fnOut.text = From(fnText, 4) /\ fnOut.text # << >>


\* ------------------------------------------------------------------ C19

\* the day of the week each weekday name stands for (Monday is 0), in the
\* nominative and in the accusative
WeekdayNames ==
  [ ponedelnik |-> 0, vtornik |-> 1, sreda |-> 2, sredu |-> 2, chetverg |-> 3,
    pyatnica |-> 4, pyatnicu |-> 4, subbota |-> 5, subbotu |-> 5, voskresene |-> 6 ]

\* the text holds a today / tomorrow keyword
HasKeyword(t) == \E i \in Idx(t) : Lower(t)[i] \in { "segodnya", "zavtra" }

\* the text names a weekday
NamesWeekday(t) == FirstIn(Lower(t), DOMAIN WeekdayNames) # 0

\* the weekday named first in the text
NamedWeekday(t) == WeekdayNames[Lower(t)[FirstIn(Lower(t), DOMAIN WeekdayNames)]]

\* C19: for a text that names a weekday (and holds no today / tomorrow
\* keyword), on every current day of the week, extract_due_date returns the
\* next occurrence of the named weekday strictly after today: the result falls
\* on that weekday, 1 to 7 days ahead, and exactly 7 days ahead when today is
\* that weekday.
C19_NextOccurrence ==
  (fnOut.op = "extract_due_date" /\ ~HasKeyword(fnText) /\ NamesWeekday(fnText))
    => LET ahead == DayNumber(fnOut.due_date) - DayNumber(today)
       IN  /\ fnOut.due_date # NoDate
           /\ Weekday(fnOut.due_date) = NamedWeekday(fnText)
           /\ ahead \in 1..7
           /\ Weekday(today) = NamedWeekday(fnText) => ahead = 7

\* the same restricted to the forms that _WEEKDAY_RE matches and _WEEKDAY_MAP holds
C19_KnownForms ==
  (/\ fnOut.op = "extract_due_date" /\ ~HasKeyword(fnText)
   /\ FirstIn(Lower(fnText), WeekdayWords) # 0
   /\ \A i \in Idx(fnText) : Lower(fnText)[i] \in DOMAIN WeekdayNames \cup { "sred", "pyatnic", "subbot" }
                                => Lower(fnText)[i] \in WeekdayWords \cap DOMAIN _WEEKDAY_MAP)
    => LET ahead == DayNumber(fnOut.due_date) - DayNumber(today)
       IN  /\ fnOut.due_date # NoDate
           /\ Weekday(fnOut.due_date) = NamedWeekday(fnText)
           /\ ahead \in 1..7
           /\ Weekday(today) = NamedWeekday(fnText) => ahead = 7


\* ------------------------------------------------------------------ C20

\* _WEEKDAY_RE matches somewhere in the text
MatchesWeekdayRule(t) == FirstIn(Lower(t), WeekdayWords) # 0

\* the text holds the word w
HasWord(t, w) == \E i \in Idx(t) : Lower(t)[i] = w

NotDateWord(w) == w \notin DOMAIN DateWords
\* the text without the words that _DATE_RE matches
WithoutDates(t) == SelectSeq(t, NotDateWord)

\* C20: the rules are applied in the order today / tomorrow keyword, weekday
\* name, numeric date, and the first rule whose pattern matches decides: a
\* keyword decides whatever else the text holds, and a text that matches the
\* weekday rule gets the result it would get without its numeric dates.
C20_FirstRuleDecides ==
  fnOut.op = "extract_due_date"
    => /\ HasWord(fnText, "segodnya") => fnOut.due_date = today
       /\ (~HasWord(fnText, "segodnya") /\ HasWord(fnText, "zavtra"))
            => fnOut.due_date = AddDays(today, 1)
       /\ (~HasKeyword(fnText) /\ MatchesWeekdayRule(fnText))
            => fnOut.due_date = extract_due_date(WithoutDates(fnText), today)

\* the keyword part and the weekday part for the forms _WEEKDAY_MAP holds
C20_KnownForms ==
  fnOut.op = "extract_due_date"
    => /\ HasWord(fnText, "segodnya") => fnOut.due_date = today
       /\ (~HasWord(fnText, "segodnya") /\ HasWord(fnText, "zavtra"))
            => fnOut.due_date = AddDays(today, 1)
       /\ (/\ ~HasKeyword(fnText) /\ MatchesWeekdayRule(fnText)
           /\ Lower(fnText)[FirstIn(Lower(fnText), WeekdayWords)] \in DOMAIN _WEEKDAY_MAP)
            => fnOut.due_date = extract_due_date(WithoutDates(fnText), today)


\* ------------------------------------------------------------------ C21

\* the numeric word w writes the calendar date dt: its day and month are dt's,
\* and its year, when it has one, is dt's in four or in two digits
NamesDate(w, dt) ==
  /\ DateWords[w].d = dt.d /\ DateWords[w].m = dt.m
  /\ DateWords[w].y \in { -1, dt.y, dt.y - 2000 }

\* the text holds a numeric date and no keyword
OnlyNumeric(t) == ~HasKeyword(t) /\ FirstIn(t, DOMAIN DateWords) # 0

\* the numeric date found first in the text
FirstNumeric(t) == t[FirstIn(t, DOMAIN DateWords)]

\* C21: under the same current date, a text whose date is written out
\* numerically (with or without year, with '.' or '/') gets the same due date as
\* the keyword: tomorrow's date the same as "zavtra", today's the same as
\* "segodnya".
C21_SameIsoDate ==
  (fnOut.op = "extract_due_date" /\ OnlyNumeric(fnText))
    => /\ NamesDate(FirstNumeric(fnText), AddDays(today, 1))
            => fnOut.due_date = extract_due_date(<< "zavtra" >>, today)
       /\ NamesDate(FirstNumeric(fnText), today)
            => fnOut.due_date = extract_due_date(<< "segodnya" >>, today)

\* the same for the dates written with their year, or lying in the current year
C21_WithinYear ==
  (/\ fnOut.op = "extract_due_date" /\ OnlyNumeric(fnText)
   /\ (DateWords[FirstNumeric(fnText)].y # -1 \/ AddDays(today, 1).y = today.y))
    => /\ NamesDate(FirstNumeric(fnText), AddDays(today, 1))
            => fnOut.due_date = extract_due_date(<< "zavtra" >>, today)
       /\ NamesDate(FirstNumeric(fnText), today)
            => fnOut.due_date = extract_due_date(<< "segodnya" >>, today)

\* a numeric date of tomorrow is normalised to the date "zavtra" gives
C21_Reached ==
  /\ fnOut.op = "extract_due_date" /\ OnlyNumeric(fnText)
  /\ NamesDate(FirstNumeric(fnText), AddDays(today, 1))
  /\ fnOut.due_date = AddDays(today, 1)

\* ------------------------------------------------------------------ C22

\* the keyword groups of the query scopes, on the lowered text
OverdueGroup(t) == \E i \in Idx(t) : Lower(t)[i] \in { "prosrochen", "prosrochenn", "prosrochennye" }
TomorrowGroup(t) == HasWord(t, "zavtra")
TodayGroup(t) ==
  \/ HasWord(t, "segodnya") \/ HasWord(t, "sejchas")
  \/ \E i \in Idx(t) : Lower(t)[i] = "na" /\ At(Lower(t), i + 1, { "den" })
ProgressGroup(t) ==
  \/ HasWord(t, "aktivn") \/ HasWord(t, "nezakryt")
  \/ \E i \in Idx(t) : Lower(t)[i] = "v" /\ At(Lower(t), i + 1, { "processe" })

\* the scope of the first group that matches, ALL when none does
FirstGroup(t) ==
  IF OverdueGroup(t) THEN OVERDUE
  ELSE IF TomorrowGroup(t) THEN TOMORROW
  ELSE IF TodayGroup(t) THEN TODAY
  ELSE IF ProgressGroup(t) THEN IN_PROGRESS
  ELSE ALL

\* C22: classify_query returns the scope of the first keyword group that
\* matches, in the order overdue, tomorrow, today / now, in progress, and ALL
\* when none matches; the handlers compute a scope only when the intent is
\* QUERY_TASKS; and "kakie u menya dela na segodnya" is a QUERY_TASKS whose
\* scope is TODAY.
C22_QueryCascade ==
  /\ fnOut.op = "classify_query" => fnOut.query_type = FirstGroup(fnText)
  /\ fnOut.op = "handle"
       => /\ fnOut.query_type # None <=> fnOut.intent = QUERY_TASKS
          /\ fnOut.intent = QUERY_TASKS => fnOut.query_type = FirstGroup(fnText)
  /\ (fnOut.op \in { "classify_query", "handle" } /\ fnText = QueryExample)
       => fnOut.intent = QUERY_TASKS /\ fnOut.query_type = TODAY

\* a query that names both tomorrow and today is scoped to tomorrow
C22_Witness ==
  /\ fnOut.op = "handle" /\ fnOut.intent = QUERY_TASKS
  /\ TomorrowGroup(fnText) /\ TodayGroup(fnText) /\ fnOut.query_type = TOMORROW

\* ------------------------------------------------------------------ C23

\* the query call of the current message returned no records
ZeroRecords ==
  /\ Handled /\ intent = QUERY_TASKS
  /\ Calls("query") # {} /\ "query" \notin fails
  /\ "tasks" \in DOMAIN result /\ result.tasks = << >>

\* the "nothing found" message of a scope
NothingFound(scope) == << [line |-> "label", scope |-> scope], [line |-> "no_tasks"] >>

\* C23: a query that returns zero records is answered with the "nothing
\* found" message of its scope, never with a list, and ends as a success: with
\* the reply delivered, the handler has returned having sent that one message,
\* and the utterance is in the daily file and in the session log.
C23_ZeroRecordsReply ==
  ZeroRecords
    => /\ \A i \in DOMAIN sent :
            sent[i].kind = "tasks" => sent[i].body = NothingFound(fields.query_type)
       /\ (Ended /\ "telegram" \notin fails)
            => /\ Len(sent) = 1 /\ sent[1].kind = "tasks" /\ outcome = "returned"
               /\ Cardinality(VaultAppends) = 1 /\ Cardinality(SessionAppends) = 1

\* a query without records has been answered and logged
C23_Witness ==
  /\ ZeroRecords /\ Ended /\ Len(sent) = 1
  /\ sent[1].body = NothingFound(TODAY) /\ SessionAppends # {}

\* ------------------------------------------------------------------ C24

\* the alias k starts the text
StartsText(k, t) == IsPrefix(KnownAliases[k].pieces, Lower(t))

\* the alias k starts the text and is followed by its end or by a character
\* that is not a letter
EndsAtBoundary(k, t) ==
  /\ StartsText(k, t)
  /\ \/ Len(KnownAliases[k].pieces) = Len(t)
     \/ Lower(t)[Len(KnownAliases[k].pieces) + 1] \in NonLetters

\* C24: _match_known_project returns the canonical project and the length of
\* the longest alias that starts the text and ends at a word boundary, and
\* (None, 0) when no alias does: an alias followed directly by a letter is
\* never the match, and a longer alias that fails the boundary test does not
\* hide a shorter one that passes it.
C24_LongestAtBoundary ==
  fnOut.op = "_match_known_project"
    => LET ok == { k \in DOMAIN KnownAliases : EndsAtBoundary(k, fnText) }
       IN  IF ok = {} THEN fnOut.proj = None /\ fnOut.len = 0
           ELSE \E k \in ok :
                  /\ \A j \in ok : KnownAliases[j].len <= KnownAliases[k].len
                  /\ fnOut.proj = KnownAliases[k].canonical
                  /\ fnOut.len = KnownAliases[k].len

\* the longest alias is followed by a letter and the shorter one is matched
C24_Witness ==
  /\ fnOut.op = "_match_known_project"
  /\ \E k \in DOMAIN KnownAliases :
       /\ StartsText(k, fnText) /\ ~EndsAtBoundary(k, fnText)
       /\ KnownAliases[k].len > fnOut.len
  /\ fnOut.proj # None

\* ------------------------------------------------------------------ C25

\* the year a numeric date stands for: the current year when it has none,
\* 2000 more when it is below 100
YearOf(g, day) == IF g.y = -1 THEN day.y ELSE IF g.y < 100 THEN g.y + 2000 ELSE g.y

\* day d of month m of year y exists in the calendar
InCalendar(y, m, d) ==
  /\ m \in 1..12
  /\ d >= 1
  /\ d <= (CASE m \in { 4, 6, 9, 11 } -> 30
             [] m = 2 -> IF y % 4 = 0 /\ (y % 100 # 0 \/ y % 400 = 0) THEN 29 ELSE 28
             [] OTHER -> 31)

\* C25: for a text whose date is numeric, extract_due_date and
\* _extract_due_date build the date from the day, the month and the year
\* (current year when omitted, plus 2000 when below 100), and give no date,
\* without raising, when that is not a day of the calendar.
C25_NumericDate ==
  (fnOut.op \in { "extract_due_date", "_extract_due_date" } /\ OnlyNumeric(fnText))
    => LET g == DateWords[FirstNumeric(fnText)]
           year == YearOf(g, today)
       IN  IF InCalendar(year, g.m, g.d)
           THEN fnOut.due_date = [y |-> year, m |-> g.m, d |-> g.d]
           ELSE fnOut.due_date = NoDate

\* 29.02.28 is a day of the leap year 2028
C25_Witness ==
  /\ fnOut.op = "_extract_due_date" /\ OnlyNumeric(fnText)
  /\ FirstNumeric(fnText) = "29.02.28"
  /\ fnOut.due_date = [y |-> 2028, m |-> 2, d |-> 29]

\* day 31 of a 30-day month and month 13 give no date
C25_Invalid ==
  /\ fnOut.op = "extract_due_date" /\ OnlyNumeric(fnText)
  /\ FirstNumeric(fnText) \in { "31.11", "5.13" } /\ fnOut.due_date = NoDate

\* ------------------------------------------------------------------ C26

\* the lines of a context that stand for entries
EntryLines(ctx) == SelectSeq(ctx, LAMBDA l : l.line = "entry")

\* positions of the log that are among its last ten and carry a text
ShownEntries ==
  { i \in DOMAIN session_log : i > Len(session_log) - 10 /\ session_log[i].text # << >> }

\* C26: the session context holds at most the last 10 entries of the day
\* (those of them that carry a text), in log order with the most recent last,
\* each text cut to at most 80 characters; it is empty when the day has no
\* entries or the user id is 0; and building it leaves the session log as it
\* was.
C26_SessionContext ==
  /\ [](fnOut.op = "_get_session_context"
          => LET lines == EntryLines(fnOut.context)
             IN  /\ Len(lines) <= 10
                 /\ fnText.user_id # 0 => Len(lines) = Cardinality(ShownEntries)
                 /\ \A k \in DOMAIN lines :
                      /\ lines[k].ts \in ShownEntries
                      /\ lines[k].text.of = session_log[lines[k].ts].text
                      /\ lines[k].type = session_log[lines[k].ts].type
                      /\ lines[k].text.shown <= 80
                      /\ lines[k].text.shown = IF Chars(lines[k].text.of) < 80
                                               THEN Chars(lines[k].text.of) ELSE 80
                      /\ \A j \in DOMAIN lines : j < k => lines[j].ts < lines[k].ts
                 /\ (fnText.user_id = 0 \/ session_log = << >>) => fnOut.context = << >>)
  /\ [][session_log' = session_log]_vars

\* a day of more than ten entries, one of them longer than 80 characters
C26_Witness ==
  /\ fnOut.op = "_get_session_context"
  /\ Len(session_log) > 10 /\ Len(EntryLines(fnOut.context)) = 10
  /\ \E k \in DOMAIN fnOut.context :
       /\ fnOut.context[k].line = "entry"
       /\ Chars(fnOut.context[k].text.of) > 80 /\ fnOut.context[k].text.shown = 80

\* ------------------------------------------------------------------ C27

\* C27: for a non-empty list of records the reply is the header of the scope,
\* one line per record in the order received, and a count equal to the number
\* of records; a line shows the record's status only when the scope is ALL
\* (and the record has one), and its due date only when the record has one.
C27_RenderedList ==
  (fnOut.op = "_format_tasks_reply" /\ fnText.tasks # << >>)
    => LET tasks == fnText.tasks
           reply == fnOut.reply
       IN  /\ Len(reply) = Len(tasks) + 2
           /\ reply[1] = [line |-> "header", scope |-> fnText.query_type]
           /\ \A i \in DOMAIN tasks :
                /\ reply[i + 1].line = "task"
                /\ reply[i + 1].name = tasks[i].name
                /\ reply[i + 1].status # None
                     <=> (fnText.query_type = ALL /\ tasks[i].status # "")
                /\ reply[i + 1].status \in { None, tasks[i].status }
                /\ reply[i + 1].due # None <=> tasks[i].due_date # ""
                /\ reply[i + 1].due \in { None, tasks[i].due_date }
           /\ reply[Len(reply)] = [line |-> "count", n |-> Len(tasks)]

\* two records rendered for the scope TODAY: the status of the first is left
\* out, its due date is shown
C27_Witness ==
  /\ fnOut.op = "_format_tasks_reply" /\ fnText.query_type = TODAY
  /\ Len(fnText.tasks) = 2 /\ fnText.tasks[1].status # "" /\ fnText.tasks[1].due_date # ""
  /\ fnOut.reply[2].status = None /\ fnOut.reply[2].due = "2026-11-07"
  /\ fnOut.reply[4].n = 2

\* ------------------------------------------------------------------ C28

\* every utterance of the session log is in the daily file
SessionWithinVault ==
  \A k \in DOMAIN session_log :
    \E j \in DOMAIN vault :
      vault[j].ts = session_log[k].msg_id /\ vault[j].text = session_log[k].text

\* the reply of a successful create or query is among the messages m
Replied(m) == \E i \in DOMAIN m : m[i].kind \in { "task_added", "tasks" }

\* C28: on every path of handle_text and handle_voice the append to the daily
\* file and the append to the session log are made together, the daily file
\* first: the session log never holds an utterance that the daily file does
\* not hold, a step that appends to one appends one record to the other, and
\* on the create and query paths the step comes only after the collaborator
\* call has succeeded and with the reply sent.
C28_AppendsTogether ==
  /\ []SessionWithinVault
  /\ [][(session_log' # session_log \/ vault' # vault)
          => /\ Routed'
             /\ Len(vault') = Len(vault) + 1
             /\ Len(session_log') = Len(session_log) + 1
             /\ vault'[Len(vault')].ts = n_msgs'
             /\ session_log'[Len(session_log')].msg_id = n_msgs'
             /\ intent' \in { CREATE_TASK, QUERY_TASKS }
                  => /\ Calls(ApiOf(intent)) # {}
                     /\ ApiOf(intent) \notin fails
                     /\ ~Replied(sent) /\ Replied(sent')]_vars

\* a created task has been confirmed to the user and archived in both logs
C28_Witness ==
  /\ Handled /\ intent = CREATE_TASK /\ Ended
  /\ Replied(sent) /\ VaultAppends # {} /\ SessionAppends # {}

\* ------------------------------------------------------------------ C29

\* C29: /task with arguments leaves the conversation state as it is and makes
\* at most one create call (exactly one once it has ended with a token
\* configured); /task without arguments enters waiting_for_input and creates
\* nothing; in that state a message without text keeps the state and creates
\* nothing, and a text message clears the state before the create attempt:
\* the state is cleared at every point of its handling, however the creation
\* ends.
C29_TaskStateMachine ==
  /\ [](/\ handler \in { "task", "task_input" } => Cardinality(Calls("create")) <= 1
        /\ (handler = "task" /\ text # << >> /\ Ended /\ notion_token # "" /\ outcome = "returned")
             => Cardinality(Calls("create")) = 1
        /\ (handler = "task" /\ text = << >>)
             => fsm_state = WAITING /\ api_calls = << >>
        /\ (handler = "task_input" /\ text = << >>)
             => fsm_state = WAITING /\ api_calls = << >>
        /\ (handler = "task_input" /\ text # << >>) => fsm_state = None)
  /\ [][/\ (handler' = "task" /\ text' # << >>) => fsm_state' = fsm_state
        /\ (handler' = "task_input" /\ n_msgs' # n_msgs) => fsm_state = WAITING]_vars

\* the creation asked for in the waiting state failed, and the state is cleared
C29_Witness ==
  /\ handler = "task_input" /\ text # << >> /\ Ended
  /\ "create" \in fails /\ fsm_state = None

\* ---------------------------------------------------------------- C30

DoCalls == SelectSeq(api_calls, LAMBDA c : c.api = "agent")

\* C30: handle_do_input clears waiting_for_input before it looks at the
\* message: it is entered only in that state, and from its first step on the
\* state stays cleared, whatever the message was (neither voice nor text, a
\* failed download, an empty transcript); the agent is invoked at most once
\* per message, and only with a non-empty prompt (api_calls holds the calls made for the
\* message being handled).
C30_DoStateMachine ==
  /\ [](/\ handler = "do_input" => fsm_state = None
        /\ handler \in { "do", "do_input" } =>
             /\ Len(DoCalls) <= 1
             /\ \A i \in 1..Len(DoCalls) : DoCalls[i].prompt # << >>
             /\ DoCalls # << >> => text # << >>)
  /\ [][/\ (handler' = "do_input" /\ n_msgs' # n_msgs) => fsm_state = DO_WAITING
        /\ (handler' \in { "do", "do_input" } /\ api_calls' # << >> /\ api_calls' # api_calls)
             => (pc = "status_send" /\ text # << >> /\ api_calls = << >>)]_vars

\* a message in the waiting state ended with the download-failed reply: the
\* state is cleared and the agent was never invoked
C30_Witness ==
  /\ handler = "do_input" /\ pc = "done" /\ outcome = "returned"
  /\ sent # << >> /\ sent[Len(sent)].kind = "d_download_failed"
  /\ fsm_state = None /\ api_calls = << >>

\* ---------------------------------------------------------------- C31

Batch == handler \in { "process", "weekly" }

Commits == Calls("commit_and_push")

\* C31: in /process and /weekly commit_and_push is invoked at most once, and
\* never when the report carries an error or the work gave no report; once
\* the handler is past the test of a report without an error it has been
\* invoked exactly once.  The invocation is a step taken after the work has
\* completed and returned its report, and the final status edit is
\* attempted only after it.
C31_CommitOnSuccess ==
  /\ [](Batch =>
          /\ Cardinality(Commits) <= 1
          /\ (result = NoResult \/ IsError(result)) => Commits = {}
          /\ (result # NoResult /\ ~IsError(result) /\ pc # "b_commit") => Cardinality(Commits) = 1
          /\ (status_text = "formatted" /\ ~IsError(result)) => Cardinality(Commits) = 1
          /\ pc \in { "final_edit", "final_edit_plain" } => (IsError(result) <=> Commits = {}))
  /\ [][(Batch /\ Batch' /\ Commits' # Commits /\ n_msgs' = n_msgs) =>
          /\ WorkCompleted /\ result # NoResult /\ ~IsError(result)
          /\ status_text # "formatted" /\ status_text' # "formatted"
          /\ pc' \in { "final_edit", "done" }]_vars

\* a /weekly run whose report carries no error ended with the report shown
\* after one commit
C31_Witness ==
  /\ handler = "weekly" /\ pc = "done" /\ outcome = "returned"
  /\ "report" \in DOMAIN result /\ status_text = "formatted"
  /\ Cardinality(Commits) = 1
  /\ api_calls[Len(api_calls)].api = "commit_and_push"

\* ---------------------------------------------------------------- C32

\* C32: when handle_text or handle_voice runs the agent for a NOTION_ACTION
\* utterance, the child process finds the configured Notion token in
\* NOTION_TOKEN, and does not find it in TODOIST_API_KEY.
C32_TokenReachesAgent ==
  (Routed /\ intent = NOTION_ACTION) =>
    \A i \in Calls("agent") :
      /\ api_calls[i].env.NOTION_TOKEN = notion_token
      /\ api_calls[i].env.TODOIST_API_KEY # notion_token

\* where the three-argument construction of /do is used, the token is the
\* NOTION_TOKEN override and the Todoist key is the other one
C32_DoEnvironment ==
  handler \in { "do", "do_input" } =>
    \A i \in Calls("agent") :
      /\ api_calls[i].env.NOTION_TOKEN = (IF notion_token # "" THEN notion_token ELSE Inherited)
      /\ api_calls[i].env.TODOIST_API_KEY = todoist_api_key

\* ---------------------------------------------------------------- C33

\* the weekday rule of extract_due_date decides: no keyword precedes it, the
\* pattern matches and the matched word is a key of the map
WeekdayRuleFires(t) ==
  /\ ~HasKeyword(t)
  /\ MatchesWeekdayRule(t)
  /\ Lower(t)[FirstIn(Lower(t), WeekdayWords)] \in DOMAIN _WEEKDAY_MAP

\* the value the function that was not applied gives for the same text and day
OtherDueDate ==
  IF fnOut.op = "_extract_due_date" THEN extract_due_date(fnText, today)
  ELSE _extract_due_date(fnText, today)

\* C33: under the same current date, the /task command's _extract_due_date
\* and the classifier's extract_due_date return the same value for every
\* text the weekday pattern does not match, and where they differ the
\* weekday rule has fired.
C33_DueDatesAgree ==
  fnOut.op \in { "_extract_due_date", "extract_due_date" } =>
    /\ ~MatchesWeekdayRule(fnText) => fnOut.due_date = OtherDueDate
    /\ fnOut.due_date # OtherDueDate => WeekdayRuleFires(fnText)

\* _extract_due_date has read a numeric date in a text without a weekday, and
\* the classifier's function gives the same date
C33_Witness ==
  /\ fnOut.op = "_extract_due_date"
  /\ fnText = << "moloko", "7/11/26" >>
  /\ fnOut.due_date = [y |-> 2026, m |-> 11, d |-> 7]
  /\ extract_due_date(fnText, today) = fnOut.due_date

\* the two functions do differ on a text that names a weekday
C33_Differ ==
  /\ fnOut.op = "_extract_due_date"
  /\ fnText = << "pyatnicu", "15.03" >>
  /\ fnOut.due_date # extract_due_date(fnText, today)

\* ---------------------------------------------------------------- C34

\* run_with_progress is running: in its loop or at `return await task`
InProgress == Supervised /\ pc \in { "rwp_sleep", "rwp_edit", "rwp_return" }

\* run_with_progress has returned the work's result or re-raised its exception
ProgressEnded ==
  /\ Supervised /\ pc \notin { "rwp_sleep", "rwp_edit", "rwp_return" }
  /\ result # NoResult \/ (outcome = "raised" /\ "context" \in fails)

\* C34: run_with_progress terminates when the work does: once started it
\* eventually returns the work's result or re-raises the work's exception,
\* and it leaves its loop no later than one polling interval after the
\* work's completion, with at most one status update begun after the last
\* interval that ended before the completion.
C34_ProgressTerminates ==
  /\ InProgress ~> ProgressEnded
  /\ [](LoopExited =>
          /\ CompletionTime(work) <= now
          /\ now <= CompletionTime(work) + POLL_INTERVAL
          /\ updates <= IntervalsBefore(CompletionTime(work)) + 1)
  /\ [][pc = "rwp_return" =>
          \/ result' = IF work.kind = "no_daily" THEN [error |-> "no_daily_file"]
                       ELSE _run_claude(work, child')
          \/ work.kind = "context_raises" /\ outcome' = "raised"]_vars

\* a work that ended on the third boundary was returned one whole interval
\* later, after the update that was begun as it completed
C34_Witness ==
  /\ ProgressEnded /\ result # NoResult
  /\ work.dur = 3 * POLL_INTERVAL
  /\ now = CompletionTime(work) + POLL_INTERVAL
  /\ updates = 3
====
